---- MODULE Spec2Model ----
(***************************************************************************)
(* Order state machine of the cross-venue order router                     *)
(* (src/backend/main.py): the persisted order set, the request-plane       *)
(* handlers create_order, create_sell and kill_order, and the background   *)
(* progress loop poll_orders.                                              *)
(*                                                                         *)
(* The handlers are coroutines on one event loop.  create_order,           *)
(* create_sell and kill_order contain no await, so each runs atomically;   *)
(* they can run only while poll_orders is suspended: in its sleep, or in   *)
(* the await of an external call (the bridge status request or an          *)
(* asyncio.to_thread worker).                                              *)
(***************************************************************************)
EXTENDS Integers, Sequences, FiniteSets, TLC

(***************************************************************************)
(* Bounds of the model.                                                    *)
(***************************************************************************)
MaxOrders == 2
MaxCalls == 6
MaxTx == 6
MaxCreates == 1
MaxSpent == 2
MaxBalance == 2

(***************************************************************************)
(* Program constants.                                                      *)
(***************************************************************************)
MAX_RETRIES == 5
KILL_RETRIES == 99
BASE == 8453
POLYGON == 137
BSC == 56

Absent == -1

PLATFORM_CHAIN(p) ==
  IF p = "polymarket" THEN POLYGON
  ELSE IF p = "opinion" THEN BSC
  ELSE IF p = "limitless" THEN BASE
  ELSE POLYGON

Get(v, dflt) == IF v = Absent THEN dflt ELSE v

NoMap == [x \in {} |-> "none"]

Names(platforms) == {platforms[i].name : i \in DOMAIN platforms}

P(n, t, s) == [name |-> n, token_id |-> t, spent |-> s]

(***************************************************************************)
(* Inputs of the request plane: the per_platform part of the route a       *)
(* create_order body carries, and the source chain the user selected.      *)
(***************************************************************************)
Routes ==
  { << P("limitless", TRUE, 1) >>,
    << P("polymarket", TRUE, 1), P("opinion", TRUE, 1) >>,
    << >> }

FromChains == {BASE}
ToChains == {BASE}

VARIABLES
  disk,          \* content of ORDERS_FILE: the list of order records
  nextId,        \* next fresh id (uuid4 is modelled as a fresh id)
  pc,            \* position of poll_orders
  orders,        \* poll_orders: the snapshot loaded at the start of the tick
  idx,           \* poll_orders: position of the for loop in orders
  changed_ids,   \* poll_orders: ids of the orders changed in this tick
  tradeCalls,    \* per order: calls of _execute_trades made so far
  bridgeCalls,   \* per order: calls of _bridge_back made so far
  bridgeRun,     \* per order: calls of _bridge_back since bridge_retries was last reset
  settle_left,   \* per order: settle_retries in the local copy at the end of the last tick that polled it
  touched,       \* per order: transitions applied in the current tick
  lastTradeError \* per order: error of the last failed trade attempt

\* State of the finer-grained views of the program: each is used by the
\* specification of its own section and stays as it is under Spec.
VARIABLES
  file,          \* bytes of ORDERS_FILE on the file system
  lock,          \* holder of _orders_lock
  saver,         \* position of the writer inside its locked section
  buf,           \* list the writer passes to _save_orders
  old,           \* order set the file held when the last save began
  obs,           \* result of the last _load_orders of a reader
  up,            \* the server process is running
  cs             \* create_sell: position and locals of the call in progress

store == << file, lock, saver, buf, old, obs, up, cs >>

VARIABLES
  pending,       \* pending transaction count of the main EOA on the source chain
  uses,          \* per nonce: transactions submitted from the main EOA with it
  rq,            \* create_order: position, local nonce, bridges still to submit
  wk             \* worker thread: position, local nonce, transactions still to submit

chain == << pending, uses, rq, wk >>

VARIABLES
  co             \* create_order: position and locals of the call in progress

VARIABLES
  ss             \* one sell order followed through its steps with its balances

VARIABLES
  rt,            \* find_optimal_route: the arguments of the last call and what it returned
  pl             \* build_pooled and _build_side: the books of the last call and what was returned

VARIABLES
  ad,            \* venue adapters: the venue data of the last call and the books made of it
  hr,            \* route and orderbook requests: what the venues answered and the response
  tr,            \* one order through its trade attempts, with the balances it is paid from
  sh             \* two buy orders and their sells on one trading address, with its balances

util == << rt, pl, ad, hr, tr, sh >>

aux == << store, chain, co, ss, util >>

vars == << disk, nextId, pc, orders, idx, changed_ids, tradeCalls, bridgeCalls,
           bridgeRun, settle_left, touched, lastTradeError, aux >>

ghosts == << tradeCalls, bridgeCalls, bridgeRun, settle_left, touched, lastTradeError >>

\* State of the progress loop and the order set as Spec sees them
core == << disk, pc, orders, idx, changed_ids, ghosts >>

Ids == 1..(MaxOrders + 1)

\* ORDERS_FILE does not exist before the first save; nobody holds the lock
NoFile == [exists |-> FALSE, whole |-> FALSE, recs |-> << >>]

Loaded(ok, recs) == [ok |-> ok, recs |-> recs]

Idle == [pc |-> "idle", nonce |-> 0, left |-> 0]

ChainInit ==
  /\ pending = 0
  /\ uses = [n \in 0..MaxTx |-> 0]
  /\ rq = Idle
  /\ wk = Idle

NewOrder(id, dir, st) ==
  [ id |-> id, direction |-> dir, status |-> st,
    platforms |-> << >>, from_chain |-> BASE, to_chain |-> BASE,
    bridges |-> NoMap, error |-> "none",
    trade_retries |-> Absent, settle_retries |-> Absent, bridge_retries |-> Absent,
    trade_error |-> "none", bridge_error |-> "none",
    trade_results |-> NoMap, transfer_results |-> NoMap,
    proceeds |-> 0, bridge_back_tx |-> FALSE, buy_order_id |-> 0 ]

NoCall ==
  [ pc |-> "idle", order |-> NewOrder(0, "buy", "pending"), funded |-> TRUE,
    before |-> << >>, chain_budgets |-> [c \in {} |-> 0], todo |-> << >>,
    bridges |-> [c \in {} |-> 0], txs |-> << >>, raised |-> FALSE,
    budget |-> 0, amount_raw |-> [usd |-> 0, decimals |-> 6] ]

CreateInit == co = NoCall

NoSell ==
  [ pc |-> "idle", order_id |-> 0, to_chain |-> BASE, found |-> FALSE,
    status |-> "none", venue |-> 0, pulls |-> 0, result |-> "none" ]

NoResult == [done |-> FALSE, balance_before |-> 0, balance_after |-> 0, proceeds |-> 0]

NoSettle ==
  [ pc |-> "none", order |-> NewOrder(0, "sell", "shares_pulled"),
    balance_before |-> 0, attempt |-> 0, polled |-> {},
    result |-> NoResult, settle_results |-> NoResult ]

SettleInit == ss = NoSettle

NoRoute == [fn |-> "none", full_books |-> << >>, budget |-> 0, direction |-> "buy", result |-> [error |-> "none"]]

RouteInit == rt = NoRoute

NoPool == [fn |-> "none", books |-> << >>, side_key |-> "asks", result |-> << >>]

PoolInit == pl = NoPool

NoBook ==
  [fn |-> "none", data |-> [bids |-> << >>, asks |-> << >>], side |-> "yes", books |-> << >>,
   venue |-> "none", errno |-> 0, offer |-> [price |-> 0, size |-> 0, side |-> "none"]]

AdapterInit == ad = NoBook

NoRequest == [fn |-> "none", results |-> << >>, budget |-> 0, direction |-> "buy", response |-> << >>]

RequestInit == hr = NoRequest

NoTrade ==
  [ order |-> [direction |-> "none", status |-> "none", venues |-> << >>, platforms |-> << >>,
               trade_retries |-> Absent, shares_amount |-> 0],
    balances |-> [v \in {"polymarket", "opinion", "limitless"} |-> 0],
    accepted |-> [v \in {"polymarket", "opinion", "limitless"} |-> 0],
    calls |-> << >>, sell |-> << >> ]

TradeInit == tr = NoTrade

NoShared ==
  [ venue |-> "none", shares |-> 0, stable |-> 0, funded |-> FALSE,
    held |-> [w \in {"w1", "w2"} |-> 0], paid |-> [w \in {"w1", "w2"} |-> 0],
    buys |-> << >>, sells |-> << >> ]

SharedInit == sh = NoShared

StoreInit ==
  /\ cs = NoSell
  /\ file = NoFile
  /\ lock = "none"
  /\ saver = "idle"
  /\ buf = << >>
  /\ old = << >>
  /\ obs = Loaded(TRUE, << >>)
  /\ up = TRUE

Init ==
  /\ disk = << >>
  /\ nextId = 1
  /\ pc = "sleep"
  /\ orders = << >>
  /\ idx = 1
  /\ changed_ids = {}
  /\ tradeCalls = [i \in Ids |-> 0]
  /\ bridgeCalls = [i \in Ids |-> 0]
  /\ bridgeRun = [i \in Ids |-> 0]
  /\ settle_left = [i \in Ids |-> 0]
  /\ touched = [i \in Ids |-> 0]
  /\ lastTradeError = [i \in Ids |-> "none"]
  /\ StoreInit
  /\ ChainInit
  /\ CreateInit
  /\ SettleInit
  /\ RouteInit
  /\ AdapterInit
  /\ RequestInit
  /\ TradeInit
  /\ SharedInit
  /\ PoolInit

changed == changed_ids # {}

\* The request plane runs only while the progress loop is suspended.
Suspended == pc \in {"sleep", "call"}

Sat(n) == IF n < MaxCalls THEN n + 1 ELSE n

(***************************************************************************)
(* Request plane.                                                          *)
(***************************************************************************)

\* chain_budgets.keys(): the target chains of the venues of the route
TargetChains(platforms) == {PLATFORM_CHAIN(n) : n \in Names(platforms)}

needs_bridge(platforms, from_chain) == ~ (TargetChains(platforms) \subseteq {from_chain})

\* The record create_order persists.  ok = FALSE: some step of the relay
\* (address check, pull, quote, approve, bridge submission) raised.
CreateOrderRecord(id, route, from_chain, ok) ==
  LET base == [NewOrder(id, "buy", "pending") EXCEPT
                 !.platforms = route, !.from_chain = from_chain]
  IN  IF route = << >> \/ ~ok
        THEN [base EXCEPT !.status = "failed", !.error = "exception"]
      ELSE IF ~ needs_bridge(route, from_chain)
        THEN [base EXCEPT !.status = "bridged"]
      ELSE [base EXCEPT
              !.status = "sent",
              !.bridges = [c \in TargetChains(route) |->
                             IF c = from_chain THEN "done" ELSE "sent"]]

create_order(route, from_chain, ok) ==
  /\ Suspended
  /\ nextId <= MaxOrders
  /\ disk' = Append(disk, CreateOrderRecord(nextId, route, from_chain, ok))
  /\ nextId' = nextId + 1
  /\ UNCHANGED << pc, orders, idx, changed_ids, ghosts, aux >>

\* Position in a list of records of the order with the given id, 0 when absent
Find(list, id) ==
  IF \E i \in DOMAIN list : list[i].id = id
    THEN CHOOSE i \in DOMAIN list : list[i].id = id /\ \A j \in 1..(i - 1) : list[j].id # id
    ELSE 0

\* Variant of FirstWithToken that takes the first venue, token id or not
FirstVenue(platforms) == IF platforms = << >> THEN 0 ELSE 1

\* First venue of a platforms map that carries a token id, 0 when none
FirstWithToken(platforms) ==
  IF \E i \in DOMAIN platforms : platforms[i].token_id
    THEN CHOOSE i \in DOMAIN platforms :
           platforms[i].token_id /\ \A j \in 1..(i - 1) : ~ platforms[j].token_id
    ELSE 0

\* ok = FALSE: adapter missing, no shares, operator not approved or the
\* share pull failed; the handler returns an error and persists nothing.
create_sell(order_id, to_chain, ok) ==
  /\ Suspended
  /\ nextId <= MaxOrders
  /\ LET b == Find(disk, order_id) IN
       IF b = 0 \/ ~ok THEN UNCHANGED vars
       ELSE IF disk[b].status # "filled" THEN UNCHANGED vars
       ELSE LET k == FirstWithToken(disk[b].platforms) IN
         IF k = 0 THEN UNCHANGED vars
         ELSE
           /\ disk' = Append(disk,
                [NewOrder(nextId, "sell", "shares_pulled") EXCEPT
                   !.platforms = << P(disk[b].platforms[k].name, TRUE, 0) >>,
                   !.to_chain = to_chain,
                   !.buy_order_id = order_id])
           /\ nextId' = nextId + 1
           /\ UNCHANGED << pc, orders, idx, changed_ids, ghosts, aux >>

\* What kill_order writes into the order it finds
Killed(o) ==
  [o EXCEPT !.status = "killed",
            !.trade_retries = KILL_RETRIES,
            !.bridge_retries = KILL_RETRIES]

kill_order(order_id) ==
  /\ Suspended
  /\ LET k == Find(disk, order_id) IN
       IF k = 0 THEN UNCHANGED vars
       ELSE /\ disk' = [disk EXCEPT ![k] = Killed(disk[k])]
            /\ UNCHANGED << nextId, pc, orders, idx, changed_ids, ghosts, aux >>

(***************************************************************************)
(* Background plane: poll_orders.                                          *)
(***************************************************************************)

\* asyncio.sleep returns: the tick snapshots the persisted order set
TickWake ==
  /\ pc = "sleep"
  /\ pc' = "loop"
  /\ orders' = disk
  /\ idx' = 1
  /\ changed_ids' = {}
  /\ UNCHANGED << disk, nextId, ghosts, aux >>

\* Variant of BridgeExhausted with the comparison off by one
BridgeExhaustedOffByOne(o) == Get(o.bridge_retries, 0) > MAX_RETRIES

\* retries >= MAX_RETRIES in the bridge-back arm
BridgeExhausted(o) == Get(o.bridge_retries, 0) >= MAX_RETRIES

\* The arm of the if/elif chain an order of the snapshot falls into;
\* "skip" stands for continue and for falling through every arm.
Branch(o) ==
  IF o.status = "killed" THEN "skip"
  ELSE IF o.status = "sent" THEN "poll_bridges"
  ELSE IF o.status \in {"bridged", "trade_failed"} /\ o.direction # "sell" THEN
    IF o.status = "trade_failed"
         /\ (Get(o.trade_retries, 0) >= MAX_RETRIES \/ o.trade_retries = Absent)
      THEN "skip" ELSE "execute_trades"
  ELSE IF o.status = "matched" /\ o.direction # "sell" THEN "settle_and_transfer"
  ELSE IF o.status \in {"shares_pulled", "trade_failed"} /\ o.direction = "sell" THEN
    IF Get(o.trade_retries, 0) >= MAX_RETRIES
         \/ (o.status = "trade_failed" /\ o.trade_retries = Absent)
      THEN "skip" ELSE "execute_sell"
  ELSE IF o.status = "sell_matched" /\ o.direction = "sell" THEN "settle_sell"
  ELSE IF o.status \in {"sell_settled", "bridge_failed"} /\ o.direction = "sell" THEN
    IF BridgeExhausted(o) THEN "skip" ELSE "bridge_back"
  ELSE IF o.status = "bridging_back" /\ o.direction = "sell" THEN
    IF o.bridge_back_tx THEN "poll_bridge_back" ELSE "skip"
  ELSE "skip"

\* Variant of NextIdx that visits the same order again
NextIdxStuck(i) == i

\* The for loop moves to the next order of the snapshot
NextIdx(i) == i + 1

\* The loop passes an order without an external call
TickSkip ==
  /\ pc = "loop"
  /\ idx <= Len(orders)
  /\ Branch(orders[idx]) = "skip"
  /\ idx' = NextIdx(idx)
  /\ UNCHANGED << disk, nextId, pc, orders, changed_ids, ghosts, aux >>

\* The loop starts the external call of the order's arm and is suspended
TickCall ==
  /\ pc = "loop"
  /\ idx <= Len(orders)
  /\ Branch(orders[idx]) # "skip"
  /\ pc' = "call"
  /\ LET id == orders[idx].id
         b == Branch(orders[idx]) IN
       /\ tradeCalls' = IF b = "execute_trades"
                          THEN [tradeCalls EXCEPT ![id] = Sat(@)] ELSE tradeCalls
       /\ bridgeCalls' = IF b = "bridge_back"
                           THEN [bridgeCalls EXCEPT ![id] = Sat(@)] ELSE bridgeCalls
       /\ bridgeRun' = IF b = "bridge_back"
                         THEN [bridgeRun EXCEPT ![id] = Sat(@)] ELSE bridgeRun
  /\ UNCHANGED << disk, nextId, orders, idx, changed_ids, settle_left, touched, lastTradeError, aux >>

\* The external call returned: the arm's assignments to the local copy
Return(o2, chg) ==
  /\ orders' = [orders EXCEPT ![idx] = o2]
  /\ changed_ids' = IF chg THEN changed_ids \cup {o2.id} ELSE changed_ids
  /\ idx' = NextIdx(idx)
  /\ pc' = "loop"
  /\ touched' = [touched EXCEPT ![o2.id] = Sat(@)]
  /\ UNCHANGED << disk, nextId, aux >>

InCall(b) == pc = "call" /\ Branch(orders[idx]) = b

\* --- buy step 1: poll the bridges of a sent order ---
Polled(o) == {c \in DOMAIN o.bridges : o.bridges[c] # "done"}

\* Variant of PollBridges that looks at all_done before any_failed
PollBridgesDoneFirst(o, res, raised, seen) ==
  LET bridges2 == [c \in DOMAIN o.bridges |->
                     IF c \in seen /\ res[c] = "DONE" THEN "done"
                     ELSE IF c \in seen /\ res[c] = "FAILED" THEN "failed"
                     ELSE o.bridges[c]]
      any_failed == \E c \in seen : res[c] = "FAILED"
      all_done == \A c \in seen : res[c] \in {"DONE", "FAILED"}
      o1 == [o EXCEPT !.bridges = bridges2]
  IN  IF raised THEN [o |-> o1, chg |-> FALSE]
      ELSE IF all_done THEN [o |-> [o1 EXCEPT !.status = "bridged"], chg |-> TRUE]
      ELSE IF any_failed
        THEN [o |-> [o1 EXCEPT !.status = "failed", !.error = "one or more bridges failed"],
              chg |-> TRUE]
      ELSE [o |-> o1, chg |-> FALSE]

PollBridges(o, res, raised, seen) ==
  LET bridges2 == [c \in DOMAIN o.bridges |->
                     IF c \in seen /\ res[c] = "DONE" THEN "done"
                     ELSE IF c \in seen /\ res[c] = "FAILED" THEN "failed"
                     ELSE o.bridges[c]]
      any_failed == \E c \in seen : res[c] = "FAILED"
      all_done == \A c \in seen : res[c] \in {"DONE", "FAILED"}
      o1 == [o EXCEPT !.bridges = bridges2]
  IN  IF raised THEN [o |-> o1, chg |-> FALSE]
      ELSE IF any_failed
        THEN [o |-> [o1 EXCEPT !.status = "failed", !.error = "one or more bridges failed"],
              chg |-> TRUE]
      ELSE IF all_done THEN [o |-> [o1 EXCEPT !.status = "bridged"], chg |-> TRUE]
      ELSE [o |-> o1, chg |-> FALSE]

TickPollBridges ==
  /\ InCall("poll_bridges")
  /\ LET o == orders[idx] IN
     \E res \in [Polled(o) -> {"DONE", "FAILED", "PENDING"}], raised \in BOOLEAN :
     \E seen \in (IF raised THEN SUBSET Polled(o) \ {Polled(o)} ELSE {Polled(o)}) :
       LET r == PollBridges(o, res, raised, seen) IN Return(r.o, r.chg)
  /\ UNCHANGED << tradeCalls, bridgeCalls, bridgeRun, settle_left, lastTradeError >>

\* --- buy step 2: execute the trades of a bridged order ---
\* Venues _execute_trades places an order on: token id present and spent > 0
Tradable(o) ==
  {o.platforms[i].name : i \in {j \in DOMAIN o.platforms :
                                  o.platforms[j].token_id /\ o.platforms[j].spent > 0}}

\* all("error" not in v ...) and len(results) > 0
all_ok(results) ==
  /\ \A v \in DOMAIN results : results[v] # "error"
  /\ DOMAIN results # {}

\* str of the dict of the venues' errors; the dict is empty when no venue traded
TradeErrorOf(results) == IF DOMAIN results = {} THEN "{}" ELSE "venue_error"

\* Variant of TradeFailure with the comparison off by one
TradeFailureOffByOne(o, retries, err) ==
  [o EXCEPT !.trade_retries = retries + 1,
            !.trade_error = err,
            !.status = IF retries + 1 > MAX_RETRIES THEN "trade_failed" ELSE @]

\* A failed attempt: count it, keep its error, give up at the bound
TradeFailure(o, retries, err) ==
  [o EXCEPT !.trade_retries = retries + 1,
            !.trade_error = err,
            !.status = IF retries + 1 >= MAX_RETRIES THEN "trade_failed" ELSE @]

ExecuteTrades(o, results, raised) ==
  LET retries == Get(o.trade_retries, 0) IN
  IF raised THEN TradeFailure(o, retries, "exception")
  ELSE IF all_ok(results)
    THEN [o EXCEPT !.trade_results = results, !.status = "matched"]
  ELSE TradeFailure([o EXCEPT !.trade_results = results], retries, TradeErrorOf(results))

TickExecuteTrades ==
  /\ InCall("execute_trades")
  /\ LET o == orders[idx] IN
     \E results \in [Tradable(o) -> {"ok", "error"}], raised \in BOOLEAN :
       LET o2 == ExecuteTrades(o, results, raised) IN
         /\ Return(o2, TRUE)
         /\ lastTradeError' = IF o2.status = "matched" THEN lastTradeError
                              ELSE [lastTradeError EXCEPT ![o.id] = o2.trade_error]
  /\ UNCHANGED << tradeCalls, bridgeCalls, bridgeRun, settle_left >>

\* --- buy step 3: poll settlement and transfer the shares ---
\* Venues _settle_and_transfer looks at: a trade result without error
Settleable(o) == {v \in DOMAIN o.trade_results : o.trade_results[v] # "error"}

\* What a venue whose shares have arrived records: a transfer to the user
\* (success or reverted), or the marker for shares kept on the custody wallet
TransferOutcomes(v) == IF v = "opinion" THEN {"kept"} ELSE {"ok", "fail"}

\* all(t.get("success") ...) and len(transfers) > 0
transfers_ok(transfers) ==
  /\ \A v \in DOMAIN transfers : transfers[v] \in {"ok", "kept"}
  /\ DOMAIN transfers # {}

SettleBound == MAX_RETRIES * 2

\* not done: count the poll in the local copy, time out at the bound
SettlePending(o, retries) ==
  IF retries + 1 >= SettleBound
    THEN [o |-> [o EXCEPT !.settle_retries = retries + 1,
                          !.status = "trade_failed",
                          !.trade_error = "settlement timeout"],
          chg |-> TRUE]
    ELSE [o |-> [o EXCEPT !.settle_retries = retries + 1], chg |-> FALSE]

SettleAndTransfer(o, transfers, raised) ==
  LET retries == Get(o.settle_retries, 0) IN
  IF raised THEN [o |-> [o EXCEPT !.settle_retries = retries + 1], chg |-> FALSE]
  ELSE IF transfers_ok(transfers)
    THEN [o |-> [o EXCEPT !.transfer_results = transfers, !.status = "filled"],
          chg |-> TRUE]
  ELSE SettlePending(o, retries)

TickSettleAndTransfer ==
  /\ InCall("settle_and_transfer")
  /\ LET o == orders[idx] IN
     \E arrived \in SUBSET Settleable(o), raised \in BOOLEAN :
     \E transfers \in [arrived -> {"ok", "fail", "kept"}] :
       /\ \A v \in arrived : transfers[v] \in TransferOutcomes(v)
       /\ LET r == SettleAndTransfer(o, transfers, raised) IN
            /\ Return(r.o, r.chg)
            /\ settle_left' = [settle_left EXCEPT ![o.id] = Get(r.o.settle_retries, 0)]
  /\ UNCHANGED << tradeCalls, bridgeCalls, bridgeRun, lastTradeError >>

\* --- sell step 1: place the SELL ---
\* Error texts of the sell flow are not told apart: every failing step
\* leaves the one value "error".
sell_platform(o) == IF o.platforms = << >> THEN "polymarket" ELSE o.platforms[1].name

ExecuteSell(o, outcome) ==
  LET retries == Get(o.trade_retries, 0)
      res == [v \in {sell_platform(o)} |-> outcome]
  IN  IF outcome = "raise" THEN TradeFailure(o, retries, "error")
      ELSE IF outcome = "error"
        THEN TradeFailure([o EXCEPT !.trade_results = res], retries, "error")
      ELSE [o EXCEPT !.trade_results = res, !.status = "sell_matched"]

TickExecuteSell ==
  /\ InCall("execute_sell")
  /\ \E outcome \in {"ok", "error", "raise"} :
       Return(ExecuteSell(orders[idx], outcome), TRUE)
  /\ UNCHANGED << tradeCalls, bridgeCalls, bridgeRun, settle_left, lastTradeError >>

\* --- sell step 2: wait for the stablecoin of the SELL ---
\* proceeds: 0 not settled, 1 settled below the bridge minimum, 2 settled above it
SettleSell(o, proceeds, raised) ==
  LET retries == Get(o.settle_retries, 0) IN
  IF raised THEN [o |-> [o EXCEPT !.settle_retries = retries + 1], chg |-> FALSE]
  ELSE IF proceeds > 0
    THEN [o |-> [o EXCEPT !.proceeds = proceeds, !.status = "sell_settled"], chg |-> TRUE]
  ELSE SettlePending(o, retries)

TickSettleSell ==
  /\ InCall("settle_sell")
  /\ LET o == orders[idx] IN
     \E proceeds \in 0..2, raised \in BOOLEAN :
       LET r == SettleSell(o, proceeds, raised) IN
         /\ Return(r.o, r.chg)
         /\ settle_left' = [settle_left EXCEPT ![o.id] = Get(r.o.settle_retries, 0)]
  /\ UNCHANGED << tradeCalls, bridgeCalls, bridgeRun, lastTradeError >>

\* --- sell step 3: return the proceeds ---
BridgeFailure(o, retries, err) ==
  [o EXCEPT !.bridge_retries = retries + 1,
            !.bridge_error = err,
            !.status = IF retries + 1 >= MAX_RETRIES THEN "bridge_failed" ELSE @]

\* _bridge_back marks a direct transfer only in its small-amount fallback
direct(o) == PLATFORM_CHAIN(sell_platform(o)) # o.to_chain /\ o.proceeds = 1

BridgeBack(o, outcome) ==
  LET retries == Get(o.bridge_retries, 0) IN
  IF outcome = "raise" THEN BridgeFailure(o, retries, "error")
  ELSE IF outcome = "error" \/ o.proceeds <= 0 THEN BridgeFailure(o, retries, "error")
  ELSE [o EXCEPT !.bridge_back_tx = TRUE,
                 !.status = IF direct(o) \/ PLATFORM_CHAIN(sell_platform(o)) = o.to_chain
                              THEN "completed" ELSE "bridging_back"]

TickBridgeBack ==
  /\ InCall("bridge_back")
  /\ \E outcome \in {"ok", "error", "raise"} :
       Return(BridgeBack(orders[idx], outcome), TRUE)
  /\ UNCHANGED << tradeCalls, bridgeCalls, bridgeRun, settle_left, lastTradeError >>

\* --- sell step 4: poll the bridge back ---
PollBridgeBack(o, st) ==
  IF st = "DONE" THEN [o |-> [o EXCEPT !.status = "completed"], chg |-> TRUE]
  ELSE IF st = "FAILED"
    THEN [o |-> [o EXCEPT !.status = "bridge_failed", !.bridge_retries = 0], chg |-> TRUE]
  ELSE [o |-> o, chg |-> FALSE]

TickPollBridgeBack ==
  /\ InCall("poll_bridge_back")
  /\ LET o == orders[idx] IN
     \E st \in {"DONE", "FAILED", "PENDING"} :
       LET r == PollBridgeBack(o, st) IN
         /\ Return(r.o, r.chg)
         /\ bridgeRun' = IF st = "FAILED" THEN [bridgeRun EXCEPT ![o.id] = 0] ELSE bridgeRun
  /\ UNCHANGED << tradeCalls, bridgeCalls, settle_left, lastTradeError >>

\* --- end of the tick: merge the changed orders into the fresh set ---
\* fresh_map[o.id] = o for the orders of the snapshot in changed_ids: a
\* changed order replaces the fresh record of its id in place, and would be
\* added at the end if the fresh set had no record of that id
InList(list, id) == \E i \in DOMAIN list : list[i].id = id

\* Variant of Merge that writes only the orders the tick changed
MergeChangedOnly(fresh, local, ids) == SelectSeq(local, LAMBDA o : o.id \in ids)

\* Variant of Merge that writes the tick's snapshot back as a whole
MergeWholeSnapshot(fresh, local, ids) == local

Merge(fresh, local, ids) ==
  [i \in DOMAIN fresh |->
     IF fresh[i].id \in ids /\ InList(local, fresh[i].id)
       THEN local[Find(local, fresh[i].id)]
       ELSE fresh[i]]
  \o SelectSeq(local, LAMBDA o : o.id \in ids /\ ~ InList(fresh, o.id))

TickCommit ==
  /\ pc = "loop"
  /\ idx > Len(orders)
  /\ disk' = IF changed THEN Merge(disk, orders, changed_ids) ELSE disk
  /\ pc' = "saved"
  /\ UNCHANGED << nextId, orders, idx, changed_ids, ghosts, aux >>

\* back to the head of the while loop: await asyncio.sleep
TickSleep ==
  /\ pc = "saved"
  /\ pc' = "sleep"
  /\ orders' = << >>
  /\ idx' = 1
  /\ changed_ids' = {}
  /\ touched' = [i \in Ids |-> 0]
  /\ UNCHANGED << disk, nextId, tradeCalls, bridgeCalls, bridgeRun, settle_left, lastTradeError, aux >>

Tick ==
  \/ TickWake \/ TickSkip \/ TickCall
  \/ TickPollBridges \/ TickExecuteTrades \/ TickSettleAndTransfer
  \/ TickExecuteSell \/ TickSettleSell \/ TickBridgeBack \/ TickPollBridgeBack
  \/ TickCommit \/ TickSleep

Next ==
  \/ \E route \in Routes, from_chain \in FromChains, ok \in BOOLEAN :
       create_order(route, from_chain, ok)
  \/ \E order_id \in Ids, to_chain \in ToChains, ok \in BOOLEAN :
       create_sell(order_id, to_chain, ok)
  \/ \E order_id \in Ids : kill_order(order_id)
  \/ Tick

Spec == Init /\ [][Next]_vars

FairSpec == Spec /\ WF_vars(Tick)

beside_store == << core, chain, co, ss, util >>

beside_chain == << core, nextId, store, co, ss, util >>

beside_create == << pc, orders, idx, changed_ids, ghosts, store, chain, ss, util >>

beside_settle == << core, nextId, store, chain, co, util >>

beside_route == << core, nextId, store, chain, co, ss, pl, ad, hr, tr, sh >>

beside_pool == << core, nextId, store, chain, co, ss, rt, ad, hr, tr, sh >>

beside_adapter == << core, nextId, store, chain, co, ss, rt, pl, hr, tr, sh >>

beside_trade == << core, nextId, store, chain, co, ss, rt, pl, ad, hr, sh >>

beside_shared == << core, nextId, store, chain, co, ss, rt, pl, ad, hr, tr >>

beside_request == << core, nextId, store, chain, co, ss, rt, pl, ad, tr, sh >>

(***************************************************************************)
(* The persisted order set at the granularity of the file system:          *)
(* _load_orders and _save_orders, the four locked sections that call       *)
(* them, and a crash of the server process followed by a restart.  The     *)
(* locked sections contain no await, so inside the running process no      *)
(* reader runs between the steps of a save; a crash can fall between any   *)
(* two of them.                                                            *)
(***************************************************************************)

\* _load_orders: [] when the file does not exist, the parsed list when the
\* file holds a complete document; json.load raises on anything else
_load_orders(f) ==
  IF ~ f.exists THEN Loaded(TRUE, << >>)
  ELSE IF f.whole THEN Loaded(TRUE, f.recs)
  ELSE Loaded(FALSE, << >>)

\* with _orders_lock: orders = _load_orders(); ...; _save_orders(list) is
\* entered.  A load that raises leaves the section with nothing written.
SaveBegin(w, list) ==
  /\ up
  /\ lock = "none"
  /\ saver = "idle"
  /\ cs.pc = "idle" \/ w = "create_sell"
  /\ _load_orders(file).ok
  /\ lock' = w
  /\ saver' = "enter"
  /\ buf' = list
  /\ old' = _load_orders(file).recs
  /\ UNCHANGED << file, obs, up, beside_store >>

\* Routes of the orders in the file: those of Routes, and one whose first
\* venue carries no token id
StoreRoutes == Routes \cup { << P("polymarket", FALSE, 1), P("limitless", TRUE, 1) >> }

StoreCreateOrder(route, ok) ==
  /\ nextId <= MaxOrders
  /\ SaveBegin("create_order",
               Append(_load_orders(file).recs, CreateOrderRecord(nextId, route, BASE, ok)))
  /\ nextId' = nextId + 1
  /\ UNCHANGED cs

\* create_sell is entered: the lookup of the buy order, without the lock,
\* and the checks that return an error before anything is submitted
CsLookup(order_id, to_chain) ==
  /\ up
  /\ saver = "idle"
  /\ cs.pc = "idle"
  /\ nextId <= MaxOrders
  /\ _load_orders(file).ok
  /\ LET recs == _load_orders(file).recs
         b == Find(recs, order_id)
         k == IF b = 0 THEN 0 ELSE FirstWithToken(recs[b].platforms)
         call == [NoSell EXCEPT !.order_id = order_id, !.to_chain = to_chain,
                                !.found = (b # 0),
                                !.status = IF b = 0 THEN "none" ELSE recs[b].status,
                                !.venue = k]
     IN  cs' = IF b = 0 \/ recs[b].status # "filled" \/ k = 0
                 THEN [call EXCEPT !.result = "error"]
                 ELSE [call EXCEPT !.pc = "pull"]
  /\ UNCHANGED << beside_store, nextId, file, lock, saver, buf, old, obs, up >>

\* The share pull.  opinion: the shares are on the smart wallet, nothing is
\* pulled.  outcome "refused": adapter missing, no shares, or operator not
\* approved; "reverted": the pull was submitted and failed.
CsPull(outcome) ==
  /\ up
  /\ cs.pc = "pull"
  /\ LET recs == _load_orders(file).recs
         buy == recs[Find(recs, cs.order_id)]
         platform == buy.platforms[cs.venue].name
     IN  cs' = IF outcome = "refused" THEN [cs EXCEPT !.pc = "idle", !.result = "error"]
               ELSE IF platform = "opinion" THEN [cs EXCEPT !.pc = "persist"]
               ELSE IF outcome = "reverted"
                 THEN [cs EXCEPT !.pc = "idle", !.pulls = @ + 1, !.result = "error"]
               ELSE [cs EXCEPT !.pc = "persist", !.pulls = @ + 1]
  /\ UNCHANGED << beside_store, nextId, file, lock, saver, buf, old, obs, up >>

\* The sell order is built and appended under the lock
StoreCreateSell ==
  /\ cs.pc = "persist"
  /\ LET recs == _load_orders(file).recs
         buy == recs[Find(recs, cs.order_id)]
         v == buy.platforms[cs.venue]
     IN  SaveBegin("create_sell",
                   Append(recs, [NewOrder(nextId, "sell", "shares_pulled") EXCEPT
                                   !.platforms = << P(v.name, v.token_id, 0) >>,
                                   !.to_chain = cs.to_chain,
                                   !.buy_order_id = cs.order_id]))
  /\ cs' = [cs EXCEPT !.pc = "idle", !.result = "created"]
  /\ nextId' = nextId + 1

StoreKillOrder(order_id) ==
  /\ LET recs == _load_orders(file).recs
         k == Find(recs, order_id) IN
       /\ k # 0
       /\ SaveBegin("kill_order", [recs EXCEPT ![k] = Killed(recs[k])])
  /\ UNCHANGED << nextId, cs >>

\* The status a tick gives a buy order it advanced
Advanced(st) ==
  IF st = "sent" THEN "bridged"
  ELSE IF st = "bridged" THEN "matched"
  ELSE "filled"

\* The commit of a tick that changed one buy order
StoreCommit(order_id) ==
  /\ LET recs == _load_orders(file).recs
         k == Find(recs, order_id) IN
       /\ k # 0
       /\ recs[k].status \in {"sent", "bridged", "matched"}
       /\ SaveBegin("poll_orders",
                    Merge(recs, [recs EXCEPT ![k].status = Advanced(@)], {order_id}))
  /\ UNCHANGED << nextId, cs >>

\* open(ORDERS_FILE, "w"): the file is created or cut to length zero
SaveOpen ==
  /\ up
  /\ saver = "enter"
  /\ file' = [exists |-> TRUE, whole |-> FALSE, recs |-> << >>]
  /\ saver' = "dump"
  /\ UNCHANGED << beside_store, nextId, cs, lock, buf, old, obs, up >>

\* json.dump writes the document piece by piece
SaveDump ==
  /\ up
  /\ saver = "dump"
  /\ Len(file.recs) < Len(buf)
  /\ file' = [file EXCEPT !.recs = Append(@, buf[Len(@) + 1])]
  /\ UNCHANGED << beside_store, nextId, cs, lock, saver, buf, old, obs, up >>

\* The document is complete; the file is closed and the lock released
SaveClose ==
  /\ up
  /\ saver = "dump"
  /\ Len(file.recs) = Len(buf)
  /\ file' = [file EXCEPT !.whole = TRUE]
  /\ saver' = "idle"
  /\ lock' = "none"
  /\ UNCHANGED << beside_store, nextId, cs, buf, old, obs, up >>

\* A reader that takes no lock: get_order, get_positions, the snapshot of a
\* tick, the lookup of create_sell
Read ==
  /\ up
  /\ saver = "idle"
  /\ cs.pc = "idle"
  /\ obs' = _load_orders(file)
  /\ UNCHANGED << beside_store, nextId, cs, file, lock, saver, buf, old, up >>

\* The process dies; its lock and its buffers die with it
Crash ==
  /\ up
  /\ up' = FALSE
  /\ lock' = "none"
  /\ saver' = "idle"
  /\ cs' = [cs EXCEPT !.pc = "idle"]
  /\ UNCHANGED << beside_store, nextId, file, buf, old, obs >>

\* The process is started again: the first tick loads the order set
Restart ==
  /\ ~ up
  /\ up' = TRUE
  /\ obs' = _load_orders(file)
  /\ UNCHANGED << beside_store, nextId, cs, file, lock, saver, buf, old >>

StoreNext ==
  \/ \E route \in StoreRoutes, ok \in BOOLEAN : StoreCreateOrder(route, ok)
  \/ \E order_id \in Ids, to_chain \in ToChains : CsLookup(order_id, to_chain)
  \/ \E outcome \in {"ok", "refused", "reverted"} : CsPull(outcome)
  \/ StoreCreateSell
  \/ \E order_id \in Ids : StoreKillOrder(order_id)
  \/ \E order_id \in Ids : StoreCommit(order_id)
  \/ SaveOpen \/ SaveDump \/ SaveClose
  \/ Read \/ Crash \/ Restart

StoreSpec == Init /\ [][StoreNext]_vars

(***************************************************************************)
(* create_order step by step: the grouping of the route by target chain,   *)
(* the pull, one bridge per target chain, and the append to the persisted  *)
(* set.  The inputs are the per_platform part of the route, the source     *)
(* chain, and whether the user's balance and allowance on the source chain *)
(* cover the budget.                                                       *)
(***************************************************************************)
Venues == {"limitless", "polymarket", "opinion", "other"}

VenueInputs == {P(n, t, s) : n \in Venues, t \in BOOLEAN, s \in 1..MaxSpent}

\* per_platform is a dict: the venues of a route have distinct names
RouteInputs ==
  {<< >>} \cup {<< v >> : v \in VenueInputs}
          \cup {r \in {<< v, w >> : v \in VenueInputs, w \in VenueInputs} :
                   r[1].name # r[2].name}

SourceChains == {BASE, POLYGON, BSC}

\* body["budget"], in dollars; the route of the body is not derived from it
OrderBudgets == {1, 2 * MaxSpent}

CHAIN_DECIMALS(c) == IF c = BSC THEN 18 ELSE 6

\* int(usd * 10 ** from_decimals), kept as mantissa and exponent
Raw(usd, from_chain) == [usd |-> usd, decimals |-> CHAIN_DECIMALS(from_chain)]

\* Variant of Grouped in which a venue's spent replaces the chain's budget
RECURSIVE GroupedLastWins(_, _)
GroupedLastWins(platforms, n) ==
  IF n = 0 THEN [c \in {} |-> 0]
  ELSE LET b == GroupedLastWins(platforms, n - 1)
           target == PLATFORM_CHAIN(platforms[n].name)
       IN  [c \in DOMAIN b \cup {target} |->
              IF c = target THEN platforms[n].spent ELSE b[c]]

\* chain_budgets after the first n venues:
\* chain_budgets[target] = chain_budgets.get(target, 0) + spent
RECURSIVE Grouped(_, _)
Grouped(platforms, n) ==
  IF n = 0 THEN [c \in {} |-> 0]
  ELSE LET b == Grouped(platforms, n - 1)
           target == PLATFORM_CHAIN(platforms[n].name)
       IN  [c \in DOMAIN b \cup {target} |->
              (IF c \in DOMAIN b THEN b[c] ELSE 0)
              + (IF c = target THEN platforms[n].spent ELSE 0)]

\* chain_budgets.items(): the target chains in the order of their first venue
RECURSIVE ChainOrder(_, _)
ChainOrder(platforms, n) ==
  IF n = 0 THEN << >>
  ELSE LET sofar == ChainOrder(platforms, n - 1)
           target == PLATFORM_CHAIN(platforms[n].name)
       IN  IF \E i \in DOMAIN sofar : sofar[i] = target THEN sofar
           ELSE Append(sofar, target)

Tx(kind, c) == [kind |-> kind, chain |-> c]

\* Variant of Fail that leaves the status of the order as it was built
FailKeepsStatus(c, err) ==
  [c EXCEPT !.order = [@ EXCEPT !.error = err],
            !.raised = TRUE, !.pc = "persist"]

\* except Exception as e: status = failed, error = str(e)
Fail(c, err) ==
  [c EXCEPT !.order = [@ EXCEPT !.status = "failed", !.error = err],
            !.raised = TRUE, !.pc = "persist"]

\* The handler is entered: order id, platforms map, order with status pending
CoCall(route, from_chain, funded, budget) ==
  /\ co.pc = "idle"
  /\ Len(disk) < MaxCreates
  /\ nextId <= MaxOrders
  /\ co' = [NoCall EXCEPT
              !.pc = "relay",
              !.order = [NewOrder(nextId, "buy", "pending") EXCEPT
                           !.platforms = route, !.from_chain = from_chain],
              !.funded = funded,
              !.budget = budget,
              !.before = disk]
  /\ nextId' = nextId + 1
  /\ UNCHANGED << disk, beside_create >>

\* Addresses, amount_raw, chain_budgets, needs_bridge, and pid = next(iter(platforms)),
\* which raises StopIteration (str: the empty string) on an empty map
CoRelay(ok) ==
  /\ co.pc = "relay"
  /\ LET platforms == co.order.platforms IN
       co' = IF ~ ok THEN Fail(co, "exception")
             ELSE IF platforms = << >>
               THEN Fail([co EXCEPT !.chain_budgets = Grouped(platforms, 0),
                                    !.amount_raw = Raw(co.budget, co.order.from_chain)], "")
             ELSE [co EXCEPT !.chain_budgets = Grouped(platforms, Len(platforms)),
                             !.amount_raw = Raw(co.budget, co.order.from_chain),
                             !.pc = "pull"]
  /\ UNCHANGED << disk, nextId, beside_create >>

\* Step 1: Router.transferERC20 is signed and sent without a look at the
\* user's balance; it reverts when the balance or the allowance is short.
\* outcome "raise": the nonce or gas price request failed, nothing was sent.
CoPull(outcome) ==
  /\ co.pc = "pull"
  /\ outcome = "ok" => co.funded
  /\ LET from_chain == co.order.from_chain
         platforms == co.order.platforms
         sent == [co EXCEPT !.txs = Append(@, Tx("pull", from_chain))]
     IN  co' = IF outcome = "raise" THEN Fail(co, "exception")
               ELSE IF outcome = "reverted"
                 THEN Fail(sent, "Router.transferERC20 reverted")
               ELSE IF ~ needs_bridge(platforms, from_chain)
                 THEN [sent EXCEPT !.order = [@ EXCEPT !.status = "bridged"],
                                   !.pc = "persist"]
               ELSE [sent EXCEPT !.pc = "bridge",
                                 !.todo = ChainOrder(platforms, Len(platforms))]
  /\ UNCHANGED << disk, nextId, beside_create >>

\* Step 2, one turn of the loop over chain_budgets.items().  outcome
\* "raise": the quote failed; "raise_approved": the approve went out and
\* the bridge transaction was refused.
CoBridge(outcome) ==
  /\ co.pc = "bridge"
  /\ co.todo # << >>
  /\ LET from_chain == co.order.from_chain
         target == Head(co.todo)
         amount == Raw(co.chain_budgets[target], from_chain)
         put(c, e) == [c EXCEPT !.bridges = [x \in DOMAIN @ \cup {target} |->
                                              IF x = target THEN e ELSE @[x]],
                                !.todo = Tail(@)]
         approved == [co EXCEPT !.txs = Append(@, Tx("approve", target))]
     IN  co' = IF target = from_chain
                 THEN put(co, [amount |-> amount, status |-> "done", bridge_tx |-> FALSE])
               ELSE IF outcome = "raise" THEN Fail(co, "exception")
               ELSE IF outcome = "raise_approved" THEN Fail(approved, "exception")
               ELSE put([approved EXCEPT !.txs = Append(@, Tx("bridge", target))],
                        [amount |-> amount, status |-> "sent", bridge_tx |-> TRUE])
  /\ UNCHANGED << disk, nextId, beside_create >>

\* order["bridges"] = bridges; order["status"] = "sent"
CoSent ==
  /\ co.pc = "bridge"
  /\ co.todo = << >>
  /\ co' = [co EXCEPT
              !.order = [@ EXCEPT !.status = "sent",
                                  !.bridges = [c \in DOMAIN co.bridges |-> co.bridges[c].status]],
              !.pc = "persist"]
  /\ UNCHANGED << disk, nextId, beside_create >>

\* with _orders_lock: load, append, save
CoPersist ==
  /\ co.pc = "persist"
  /\ disk' = Append(disk, co.order)
  /\ co' = [co EXCEPT !.pc = "done"]
  /\ UNCHANGED << nextId, beside_create >>

CreateNext ==
  \/ \E route \in RouteInputs, from_chain \in SourceChains, funded \in BOOLEAN :
       \E budget \in OrderBudgets : CoCall(route, from_chain, funded, budget)
  \/ \E ok \in BOOLEAN : CoRelay(ok)
  \/ \E outcome \in {"ok", "raise", "reverted"} : CoPull(outcome)
  \/ \E outcome \in {"ok", "raise", "raise_approved"} : CoBridge(outcome)
  \/ CoSent
  \/ CoPersist

CreateSpec == Init /\ [][CreateNext]_vars

(***************************************************************************)
(* One sell order from shares_pulled on, with the stablecoin balances of   *)
(* the custody wallet that _execute_sell snapshots and _settle_sell polls. *)
(* The arms of poll_orders are those of the progress loop above; what a    *)
(* tick does not put into changed_ids is not kept.                         *)
(***************************************************************************)
Balances == 0..MaxBalance

\* Polls of one call of _settle_sell: five in the loop and one after it
SettlePolls == 6

\* Variant of Settled that accepts a balance equal to the snapshot
SettledAtLeast(balance, balance_before) == balance >= balance_before

\* if balance > balance_before
Settled(balance, balance_before) == balance > balance_before

\* create_sell has persisted the order
SsCreate(platform, to_chain) ==
  /\ ss.pc = "none"
  /\ ss' = [ss EXCEPT !.pc = "idle",
                       !.order = [NewOrder(1, "sell", "shares_pulled") EXCEPT
                                    !.platforms = << P(platform, TRUE, 0) >>,
                                    !.to_chain = to_chain]]
  /\ UNCHANGED beside_settle

\* Sell step 1: _execute_sell snapshots the balance and places the SELL
SsExecuteSell(outcome, balance_before) ==
  /\ ss.pc = "idle"
  /\ Branch(ss.order) = "execute_sell"
  /\ ss' = [ss EXCEPT !.order = ExecuteSell(@, outcome),
                       !.balance_before = IF outcome = "ok" THEN balance_before ELSE @]
  /\ UNCHANGED beside_settle

\* Sell step 2: _settle_sell is called; balance_before is read from the
\* trade result
SsSettleCall ==
  /\ ss.pc = "idle"
  /\ Branch(ss.order) = "settle_sell"
  /\ ss' = [ss EXCEPT !.pc = "poll", !.attempt = 0, !.polled = {}, !.result = NoResult]
  /\ UNCHANGED beside_settle

\* One poll of the balance
SsPoll(balance) ==
  /\ ss.pc = "poll"
  /\ LET polled == [ss EXCEPT !.attempt = @ + 1, !.polled = @ \cup {balance}] IN
       ss' = IF Settled(balance, ss.balance_before)
               THEN [polled EXCEPT
                       !.pc = "arm",
                       !.result = [done |-> TRUE,
                                   balance_before |-> ss.balance_before,
                                   balance_after |-> balance,
                                   proceeds |-> balance - ss.balance_before]]
             ELSE IF ss.attempt + 1 = SettlePolls
               THEN [polled EXCEPT !.pc = "arm", !.result = NoResult]
             ELSE polled
  /\ UNCHANGED beside_settle

\* The arm of poll_orders takes the result; raised: the balance request
\* raised inside _settle_sell
SsSettleArm(raised) ==
  /\ \/ ss.pc = "arm" /\ ~ raised
     \/ ss.pc = "poll" /\ raised
  /\ LET r == SettleSell(ss.order, ss.result.proceeds, raised) IN
       ss' = [ss EXCEPT !.pc = "idle",
                        !.order = IF r.chg THEN r.o ELSE @,
                        !.settle_results = IF r.o.status = "sell_settled"
                                             THEN ss.result ELSE @]
  /\ UNCHANGED beside_settle

\* Sell step 3
SsBridgeBack(outcome) ==
  /\ ss.pc = "idle"
  /\ Branch(ss.order) = "bridge_back"
  /\ ss' = [ss EXCEPT !.order = BridgeBack(@, outcome)]
  /\ UNCHANGED beside_settle

\* Sell step 4
SsPollBridgeBack(st) ==
  /\ ss.pc = "idle"
  /\ Branch(ss.order) = "poll_bridge_back"
  /\ ss' = [ss EXCEPT !.order = PollBridgeBack(@, st).o]
  /\ UNCHANGED beside_settle

SettleNext ==
  \/ \E platform \in {"limitless", "polymarket", "opinion"}, to_chain \in SourceChains :
       SsCreate(platform, to_chain)
  \/ \E outcome \in {"ok", "error", "raise"}, balance_before \in Balances :
       SsExecuteSell(outcome, balance_before)
  \/ SsSettleCall
  \/ \E balance \in Balances : SsPoll(balance)
  \/ \E raised \in BOOLEAN : SsSettleArm(raised)
  \/ \E outcome \in {"ok", "error", "raise"} : SsBridgeBack(outcome)
  \/ \E st \in {"DONE", "FAILED", "PENDING"} : SsPollBridgeBack(st)

SettleSpec == Init /\ [][SettleNext]_vars

(***************************************************************************)
(* Nonces of the main EOA on one chain.  create_order makes its web3 calls *)
(* on the event loop thread; the steps of the progress loop that submit    *)
(* transactions (_settle_and_transfer, _bridge_back) run in a worker       *)
(* thread of asyncio.to_thread, so the two interleave call by call.  Both  *)
(* sign with the same key (RELAYER_KEY = OWNER_KEY).                       *)
(***************************************************************************)

\* eth.send_raw_transaction of a transaction carrying nonce n: the node's
\* pending count grows when n is the next free nonce
Submit(n) ==
  /\ uses' = [uses EXCEPT ![n] = @ + 1]
  /\ pending' = IF n = pending THEN pending + 1 ELSE pending

\* create_order: nonce = get_transaction_count(owner, "pending"), once;
\* bridges is the number of target chains other than the source chain
RqFetch(bridges) ==
  /\ rq.pc = "idle"
  /\ pending + 1 + 2 * bridges <= MaxTx
  /\ rq' = [pc |-> "pull", nonce |-> pending, left |-> bridges]
  /\ UNCHANGED << pending, uses, wk, beside_chain >>

\* the pull; then nonce += 1
RqPull ==
  /\ rq.pc = "pull"
  /\ Submit(rq.nonce)
  /\ rq' = IF rq.left = 0 THEN Idle
            ELSE [rq EXCEPT !.pc = "approve", !.nonce = @ + 1]
  /\ UNCHANGED << wk, beside_chain >>

\* the approve of one bridge; then nonce += 1
RqApprove ==
  /\ rq.pc = "approve"
  /\ Submit(rq.nonce)
  /\ rq' = [rq EXCEPT !.pc = "bridge", !.nonce = @ + 1]
  /\ UNCHANGED << wk, beside_chain >>

\* the bridge transaction; then nonce += 1 and the next target chain
RqBridge ==
  /\ rq.pc = "bridge"
  /\ Submit(rq.nonce)
  /\ rq' = IF rq.left = 1 THEN Idle
            ELSE [rq EXCEPT !.pc = "approve", !.nonce = @ + 1, !.left = @ - 1]
  /\ UNCHANGED << wk, beside_chain >>

\* A send that raised ends the handler or the worker step
RqRaise ==
  /\ rq.pc \in {"pull", "approve", "bridge"}
  /\ rq' = Idle
  /\ UNCHANGED << pending, uses, wk, beside_chain >>

\* Worker: transfer_shares / transfer_usdt_to_user fetch the count for
\* their one transaction (txs = 1); _bridge_back fetches once for its
\* approve and its bridge transaction (txs = 2)
WkFetch(txs) ==
  /\ wk.pc = "idle"
  /\ pending + txs <= MaxTx
  /\ wk' = [pc |-> "send", nonce |-> pending, left |-> txs]
  /\ UNCHANGED << pending, uses, rq, beside_chain >>

WkSend ==
  /\ wk.pc = "send"
  /\ Submit(wk.nonce)
  /\ wk' = IF wk.left = 1 THEN Idle
            ELSE [wk EXCEPT !.nonce = @ + 1, !.left = @ - 1]
  /\ UNCHANGED << rq, beside_chain >>

WkRaise ==
  /\ wk.pc = "send"
  /\ wk' = Idle
  /\ UNCHANGED << pending, uses, rq, beside_chain >>

ChainNext ==
  \/ \E bridges \in 0..2 : RqFetch(bridges)
  \/ RqPull \/ RqApprove \/ RqBridge \/ RqRaise
  \/ \E txs \in 1..2 : WkFetch(txs)
  \/ WkSend \/ WkRaise

ChainSpec == Init /\ [][ChainNext]_vars

(***************************************************************************)
(* Routing: find_optimal_route of src/backend/utils/utils.py, the module   *)
(* the backend imports, and of src/utils/utils.py, the copy the top-level  *)
(* main.py imports, as functions of their arguments.                       *)
(*                                                                         *)
(* Numbers.  The code computes with floats and rounds what it returns to   *)
(* four decimals.  Here every number is a whole count of one small unit    *)
(* and the step of round(x, 4) is Grain units, so that the arguments can   *)
(* be finer than the rounding step, as the sizes of the venues (six        *)
(* decimals) and a budget typed by the user are.  A price is a count of    *)
(* PriceDen-ths: price n stands for n / PriceDen.  Sizes, and the budget   *)
(* of a sell, are multiples of PriceDen and prices divide PriceDen, which  *)
(* makes every product and quotient of the walk exact; the representation  *)
(* error of floats is not modelled.  avg_price and avg_price_cents are     *)
(* left out of the returned route, and price_cents out of the levels.      *)
(***************************************************************************)
MaxBudget == 5
MaxLevels == 2
MaxBooks == 2
MaxSize == 2
PriceDen == 4
Grain == 3

Prices == {1, 2}

Sizes == {PriceDen * k : k \in 0..MaxSize}

RouteVenues == {"limitless", "polymarket"}

Directions == {"buy", "sell"}

Level(p, s) == [price |-> p, size |-> s]

LevelInputs == {Level(p, s) : p \in Prices, s \in Sizes}

\* One side of a book as every adapter returns it: asks sorted by price
\* ascending, bids descending
SideInputs(side_key) ==
  {l \in UNION {[1..n -> LevelInputs] : n \in 0..MaxLevels} :
     \A i \in 1..(Len(l) - 1) :
       IF side_key = "asks" THEN l[i].price <= l[i + 1].price
                            ELSE l[i].price >= l[i + 1].price}

\* The side the call does not walk is empty or holds one level
OtherSideInputs == {<< >>, << Level(1, PriceDen) >>}

BookInputs(direction) ==
  {[platform |-> v, asks |-> a, bids |-> b] :
     v \in RouteVenues,
     a \in IF direction = "buy" THEN SideInputs("asks") ELSE OtherSideInputs,
     b \in IF direction = "sell" THEN SideInputs("bids") ELSE OtherSideInputs}

\* route() passes one book per adapter: the platforms of the books differ
FullBooksInputs(direction) ==
  {bs \in UNION {[1..n -> BookInputs(direction)] : n \in 0..MaxBooks} :
     \A i \in DOMAIN bs : \A j \in DOMAIN bs : i # j => bs[i].platform # bs[j].platform}

\* budget is dollars for a buy and shares for a sell
BudgetInputs(direction) ==
  IF direction = "buy" THEN -1..MaxBudget
  ELSE {PriceDen * b : b \in -1..MaxBudget}

Min(a, b) == IF a < b THEN a ELSE b

\* x * price and x / price for a price in PriceDen-ths
Times(x, price) == (x * price) \div PriceDen

Over(x, price) == (x * PriceDen) \div price

\* round(x, 4) of a number that is not negative: the nearest multiple of
\* Grain (Grain is odd: no number lies halfway)
Round4(x) == Grain * ((2 * x + Grain) \div (2 * Grain))

RECURSIVE Tagged(_, _)
Tagged(full_books, side_key) ==
  IF full_books = << >> THEN << >>
  ELSE LET book == Head(full_books)
           side == book[side_key]
       IN [i \in 1..Len(side) |->
             [platform |-> book.platform, price |-> side[i].price, size |-> side[i].size]]
          \o Tagged(Tail(full_books), side_key)

RECURSIVE InOrder(_, _)
InOrder(S, reverse) ==
  IF S = {} THEN << >>
  ELSE LET m == CHOOSE x \in S : \A y \in S : IF reverse THEN y <= x ELSE x <= y
       IN << m >> \o InOrder(S \ {m}, reverse)

\* grouped with the prices ascending whatever the direction
groupedAscending(levels, reverse) ==
  LET prices == InOrder({levels[i].price : i \in DOMAIN levels}, FALSE)
  IN [g \in DOMAIN prices |-> SelectSeq(levels, LAMBDA lv : lv.price = prices[g])]

\* levels.sort by price (the sort is stable) followed by groupby: one
\* group per price, in sorted order, its levels in the order of `levels`
grouped(levels, reverse) ==
  LET prices == InOrder({levels[i].price : i \in DOMAIN levels}, reverse)
  IN [g \in DOMAIN prices |-> SelectSeq(levels, LAMBDA lv : lv.price = prices[g])]

Walk(budget) ==
  [remaining |-> budget, used_platforms |-> {}, fills |-> << >>, per_platform |-> << >>]

\* consume with remaining reduced by the dollars of the fill in both directions
consumeBySpend(w, lv, direction) ==
  IF w.remaining <= 0 THEN w
  ELSE
    LET p == lv.platform
        spend == IF direction = "buy" THEN Min(w.remaining, Times(lv.size, lv.price))
                 ELSE Times(Min(w.remaining, lv.size), lv.price)
        qty == IF direction = "buy"
               THEN (IF lv.price > 0 THEN Over(spend, lv.price) ELSE 0)
               ELSE Min(w.remaining, lv.size)
        was == IF p \in DOMAIN w.per_platform THEN w.per_platform[p]
               ELSE [spent |-> 0, qty |-> 0]
    IN IF qty <= 0 THEN w
       ELSE [remaining |-> w.remaining - spend,
             used_platforms |-> w.used_platforms \cup {p},
             fills |-> Append(w.fills, [platform |-> p, price |-> lv.price,
                                        size |-> Round4(qty), cost |-> Round4(spend)]),
             per_platform |->
               [x \in DOMAIN w.per_platform \cup {p} |->
                  IF x = p THEN [spent |-> was.spent + spend, qty |-> was.qty + qty]
                  ELSE w.per_platform[x]]]

consume(w, lv, direction) ==
  IF w.remaining <= 0 THEN w
  ELSE
    LET p == lv.platform
        available_cost == Times(lv.size, lv.price)
        spend == IF direction = "buy" THEN Min(w.remaining, available_cost)
                 ELSE Times(Min(w.remaining, lv.size), lv.price)
        qty == IF direction = "buy"
               THEN (IF lv.price > 0 THEN Over(spend, lv.price) ELSE 0)
               ELSE Min(w.remaining, lv.size)
        was == IF p \in DOMAIN w.per_platform THEN w.per_platform[p]
               ELSE [spent |-> 0, qty |-> 0]
    IN IF qty <= 0 THEN w
       ELSE [remaining |-> w.remaining - (IF direction = "buy" THEN spend ELSE qty),
             used_platforms |-> w.used_platforms \cup {p},
             fills |-> Append(w.fills, [platform |-> p, price |-> lv.price,
                                        size |-> Round4(qty), cost |-> Round4(spend)]),
             per_platform |->
               [x \in DOMAIN w.per_platform \cup {p} |->
                  IF x = p THEN [spent |-> was.spent + spend, qty |-> was.qty + qty]
                  ELSE w.per_platform[x]]]

RECURSIVE ConsumeAll(_, _, _)
ConsumeAll(w, lvs, direction) ==
  IF lvs = << >> THEN w
  ELSE ConsumeAll(consume(w, Head(lvs), direction), Tail(lvs), direction)

RECURSIVE Notional(_)
Notional(lvs) ==
  IF lvs = << >> THEN 0
  ELSE Times(Head(lvs).size, Head(lvs).price) + Notional(Tail(lvs))

vol(new, p) == Notional(SelectSeq(new, LAMBDA lv : lv.platform = p))

\* best_new as the platform of least notional
best_newSmallest(new) ==
  LET i == CHOOSE i \in DOMAIN new :
             /\ \A j \in DOMAIN new : vol(new, new[j].platform) >= vol(new, new[i].platform)
             /\ \A j \in 1..(i - 1) : vol(new, new[j].platform) > vol(new, new[i].platform)
  IN new[i].platform

\* max(vol, key=vol.get): of the keys with the largest value, the one
\* inserted first, which is the one that comes first in `new`
best_new(new) ==
  LET i == CHOOSE i \in DOMAIN new :
             /\ \A j \in DOMAIN new : vol(new, new[j].platform) <= vol(new, new[i].platform)
             /\ \A j \in 1..(i - 1) : vol(new, new[j].platform) < vol(new, new[i].platform)
  IN new[i].platform

WalkGroup(w, group, direction) ==
  IF w.remaining <= 0 THEN w
  ELSE
    LET known == SelectSeq(group, LAMBDA lv : lv.platform \in w.used_platforms)
        k == ConsumeAll(w, known, direction)
        new == SelectSeq(group, LAMBDA lv : lv.platform \notin k.used_platforms)
    IN IF k.remaining > 0 /\ new # << >>
       THEN ConsumeAll(k, SelectSeq(new, LAMBDA lv : lv.platform = best_new(new)), direction)
       ELSE k

RECURSIVE WalkGroups(_, _, _)
WalkGroups(w, groups, direction) ==
  IF groups = << >> THEN w
  ELSE WalkGroups(WalkGroup(w, Head(groups), direction), Tail(groups), direction)

\* Total that stops after the first platform
RECURSIVE TotalOfOne(_, _)
TotalOfOne(per_platform, field) ==
  IF DOMAIN per_platform = {} THEN 0
  ELSE LET p == CHOOSE p \in DOMAIN per_platform : TRUE
       IN per_platform[p][field]

RECURSIVE Total(_, _)
Total(per_platform, field) ==
  IF DOMAIN per_platform = {} THEN 0
  ELSE LET p == CHOOSE p \in DOMAIN per_platform : TRUE
       IN per_platform[p][field]
          + Total([x \in DOMAIN per_platform \ {p} |-> per_platform[x]], field)

Returned(w, budget, direction) ==
  [direction |-> direction,
   budget |-> budget,
   total_spent |-> Round4(Total(w.per_platform, "spent")),
   total_qty |-> Round4(Total(w.per_platform, "qty")),
   unfilled |-> Round4(IF w.remaining > 0 THEN w.remaining ELSE 0),
   platforms_used |-> Cardinality(DOMAIN w.per_platform),
   per_platform |-> [p \in DOMAIN w.per_platform |->
                       [spent |-> Round4(w.per_platform[p].spent),
                        qty |-> Round4(w.per_platform[p].qty)]],
   fills |-> w.fills]

side_key_of(direction) == IF direction = "buy" THEN "asks" ELSE "bids"

\* The walk of src/backend/utils/utils.py before the totals are rounded
walked(full_books, budget, direction) ==
  WalkGroups(Walk(budget),
             grouped(Tagged(full_books, side_key_of(direction)), direction = "sell"),
             direction)

\* find_optimal_route with the levels looked at before the budget
find_optimal_routeLevelsFirst(full_books, budget, direction) ==
  IF Tagged(full_books, side_key_of(direction)) = << >>
  THEN [error |-> "No liquidity available"]
  ELSE IF budget <= 0 THEN [error |-> "Budget must be > 0"]
       ELSE Returned(walked(full_books, budget, direction), budget, direction)

find_optimal_route(full_books, budget, direction) ==
  IF budget <= 0 THEN [error |-> "Budget must be > 0"]
  ELSE IF Tagged(full_books, side_key_of(direction)) = << >>
       THEN [error |-> "No liquidity available"]
       ELSE Returned(walked(full_books, budget, direction), budget, direction)

\* src/utils/utils.py: every level of a group is walked, the levels of the
\* platforms already used first, then by platform name
PlatformOrder == << "limitless", "opinion", "polymarket" >>

RECURSIVE ByPlatform(_, _)
ByPlatform(lvs, names) ==
  IF names = << >> THEN << >>
  ELSE SelectSeq(lvs, LAMBDA lv : lv.platform = Head(names)) \o ByPlatform(lvs, Tail(names))

WalkGroupRoot(w, group, direction) ==
  IF w.remaining <= 0 THEN w
  ELSE ConsumeAll(w,
         ByPlatform(SelectSeq(group, LAMBDA lv : lv.platform \in w.used_platforms), PlatformOrder)
         \o ByPlatform(SelectSeq(group, LAMBDA lv : lv.platform \notin w.used_platforms), PlatformOrder),
         direction)

RECURSIVE WalkGroupsRoot(_, _, _)
WalkGroupsRoot(w, groups, direction) ==
  IF groups = << >> THEN w
  ELSE WalkGroupsRoot(WalkGroupRoot(w, Head(groups), direction), Tail(groups), direction)

find_optimal_route_root(full_books, budget, direction) ==
  IF budget <= 0 THEN [error |-> "Budget must be > 0"]
  ELSE IF Tagged(full_books, side_key_of(direction)) = << >>
       THEN [error |-> "No liquidity available"]
       ELSE Returned(WalkGroupsRoot(Walk(budget),
                       grouped(Tagged(full_books, side_key_of(direction)), direction = "sell"),
                       direction),
                     budget, direction)

\* One call of the function of the backend on any arguments
Route ==
  /\ rt = NoRoute
  /\ \E direction \in Directions :
       \E full_books \in FullBooksInputs(direction) :
         \E budget \in BudgetInputs(direction) :
           rt' = [fn |-> "backend", full_books |-> full_books, budget |-> budget,
                  direction |-> direction,
                  result |-> find_optimal_route(full_books, budget, direction)]
  /\ UNCHANGED beside_route

\* One call of the function of the top-level copy on any arguments
RouteRoot ==
  /\ rt = NoRoute
  /\ \E direction \in Directions :
       \E full_books \in FullBooksInputs(direction) :
         \E budget \in BudgetInputs(direction) :
           rt' = [fn |-> "root", full_books |-> full_books, budget |-> budget,
                  direction |-> direction,
                  result |-> find_optimal_route_root(full_books, budget, direction)]
  /\ UNCHANGED beside_route

\* The books of the three venues in the order route() passes them, for a
\* buy over three prices; every level has the same size, a venue offers
\* more at a price by having more levels there
AcrossVenues == << "polymarket", "limitless", "opinion" >>

AcrossLevels == {Level(p, PriceDen) : p \in {1, 2, 4}}

AcrossSides ==
  {l \in UNION {[1..n -> AcrossLevels] : n \in 0..MaxLevels} :
     \A i \in 1..(Len(l) - 1) : l[i].price <= l[i + 1].price}

\* One call of the function of the backend to buy across three venues
RouteAcross ==
  /\ rt = NoRoute
  /\ \E asks \in [DOMAIN AcrossVenues -> AcrossSides] :
       \E budget \in 1..MaxBudget :
         LET full_books == [i \in DOMAIN AcrossVenues |->
                             [platform |-> AcrossVenues[i], asks |-> asks[i], bids |-> << >>]]
         IN rt' = [fn |-> "backend", full_books |-> full_books, budget |-> budget,
                   direction |-> "buy",
                   result |-> find_optimal_route(full_books, budget, "buy")]
  /\ UNCHANGED beside_route

RouteNext == Route \/ RouteRoot \/ RouteAcross

RouteSpec == Init /\ [][RouteNext]_vars

(***************************************************************************)
(* Pooling: build_pooled of src/backend/utils/utils.py and of              *)
(* src/utils/utils.py, and _build_side of src/backend/main.py, as          *)
(* functions of the books.                                                 *)
(*                                                                         *)
(* Numbers.  The grid of the code has the keys 1..999, key k standing for  *)
(* the price k / 1000; here it has the keys 1..MaxKey, key k standing for  *)
(* k / KeyDen.  price_cents is counted in halves of a grid step, so that   *)
(* round(price_cents * 10) has something to round, halves going to the     *)
(* even key as Python's round does.  Sizes and dollars are whole counts of *)
(* a unit of which Cent make the step of round(x, 2).  The price and       *)
(* price_cents of an emitted level are both written as its key.            *)
(***************************************************************************)
MaxKey == 2
MaxPoolLevels == 2
KeyDen == MaxKey + 1
Cent == 3

GridKeys == 1..MaxKey

HalfKeys == 1..(2 * MaxKey + 2)

PoolSizes == {0, 2, 5}

PoolLevel(h, s) == [price_cents |-> h, size |-> s]

SideKeys == {"asks", "bids"}

\* One side of a book over the levels L, sorted as the adapters sort it
PoolSides(L, side_key) ==
  {l \in UNION {[1..n -> L] : n \in 0..MaxPoolLevels} :
     \A i \in 1..(Len(l) - 1) :
       IF side_key = "asks" THEN l[i].price_cents <= l[i + 1].price_cents
                            ELSE l[i].price_cents >= l[i + 1].price_cents}

PoolLevelInputs == {PoolLevel(h, s) : h \in HalfKeys, s \in PoolSizes}

\* What an adapter returns when it does not know the event
ErrorBook == [error |-> "Event not found"]

\* The books of a call of build_pooled: the side it pools is any side, the
\* other side holds one level
PoolBookInputs(side_key) ==
  {ErrorBook} \cup
  {[asks |-> a, bids |-> b] :
     a \in IF side_key = "asks" THEN PoolSides(PoolLevelInputs, "asks")
           ELSE {<< PoolLevel(2 * MaxKey, 5) >>},
     b \in IF side_key = "bids" THEN PoolSides(PoolLevelInputs, "bids")
           ELSE {<< PoolLevel(2, 5) >>}}

PoolBooksInputs(side_key) == UNION {[1..n -> PoolBookInputs(side_key)] : n \in 0..MaxBooks}

\* The books of a call of _build_side: levels on the grid, of sizes above zero
GridLevelInputs == {PoolLevel(2 * k, s) : k \in GridKeys, s \in PoolSizes \ {0}}

SideBookInputs ==
  {ErrorBook} \cup
  {[asks |-> a, bids |-> b] :
     a \in PoolSides(GridLevelInputs, "asks"), b \in PoolSides(GridLevelInputs, "bids")}

SideBooksInputs == UNION {[1..n -> SideBookInputs] : n \in 0..MaxBooks}

\* round(price_cents * 10) of a price_cents of h halves of a grid step
price_key(h) ==
  IF h % 2 = 0 THEN h \div 2
  ELSE IF ((h - 1) \div 2) % 2 = 0 THEN (h - 1) \div 2 ELSE (h + 1) \div 2

\* round(x, 2) of a number that is not negative (Cent is odd: no number
\* lies halfway)
Round2(x) == Cent * ((2 * x + Cent) \div (2 * Cent))

\* round(price_dec * size, 2) for the price of a key
RoundedProduct(key, size) ==
  Cent * ((2 * key * size + Cent * KeyDen) \div (2 * Cent * KeyDen))

\* PooledLevels that reads the first book only
PooledLevelsOfFirst(books, side_key) ==
  IF books = << >> THEN << >>
  ELSE IF "error" \in DOMAIN Head(books) THEN << >> ELSE Head(books)[side_key]

RECURSIVE PooledLevels(_, _)
PooledLevels(books, side_key) ==
  IF books = << >> THEN << >>
  ELSE (IF "error" \in DOMAIN Head(books) THEN << >> ELSE Head(books)[side_key])
       \o PooledLevels(Tail(books), side_key)

RECURSIVE SizeSum(_)
SizeSum(levels) ==
  IF levels = << >> THEN 0 ELSE Head(levels).size + SizeSum(Tail(levels))

grid(books, side_key) ==
  [key \in GridKeys |->
     SizeSum(SelectSeq(PooledLevels(books, side_key),
                       LAMBDA level : price_key(level.price_cents) = key))]

RECURSIVE Emit(_, _, _)
Emit(g, key, cumsum) ==
  IF key > MaxKey THEN << >>
  ELSE IF g[key] > 0
       THEN LET size == Round2(g[key])
                total == RoundedProduct(key, size)
            IN << [price |-> key, size |-> size, total |-> total,
                   price_cents |-> key, cumsum |-> Round2(cumsum + total)] >>
               \o Emit(g, key + 1, cumsum + total)
       ELSE Emit(g, key + 1, cumsum)

build_pooled(books, side_key) == Emit(grid(books, side_key), 1, 0)

\* src/utils/utils.py: the levels carry no cumsum
RECURSIVE EmitRoot(_, _)
EmitRoot(g, key) ==
  IF key > MaxKey THEN << >>
  ELSE IF g[key] > 0
       THEN << [price |-> key, size |-> Round2(g[key]),
                total |-> RoundedProduct(key, Round2(g[key])), price_cents |-> key] >>
            \o EmitRoot(g, key + 1)
       ELSE EmitRoot(g, key + 1)

build_pooled_root(books, side_key) == EmitRoot(grid(books, side_key), 1)

RECURSIVE Concat(_)
Concat(seqs) == IF seqs = << >> THEN << >> ELSE Head(seqs) \o Concat(Tail(seqs))

\* sorted(levels, key=price, reverse=reverse): the sort is stable
sorted(levels, reverse) ==
  LET prices == InOrder({levels[i].price : i \in DOMAIN levels}, reverse)
  IN Concat([g \in DOMAIN prices |-> SelectSeq(levels, LAMBDA lv : lv.price = prices[g])])

_build_side(books) ==
  LET asks == sorted(build_pooled(books, "asks"), FALSE)
      bids == sorted(build_pooled(books, "bids"), TRUE)
  IN [asks |-> asks, bids |-> bids,
      best_ask |-> IF asks # << >> THEN asks[1].price_cents ELSE 0,
      best_bid |-> IF bids # << >> THEN bids[1].price_cents ELSE 0]

\* One call of build_pooled of the backend on any books
BuildPooled ==
  /\ pl = NoPool
  /\ \E side_key \in SideKeys : \E books \in PoolBooksInputs(side_key) :
       pl' = [fn |-> "build_pooled", books |-> books, side_key |-> side_key,
              result |-> build_pooled(books, side_key)]
  /\ UNCHANGED beside_pool

\* One call of build_pooled of the top-level copy on any books
BuildPooledRoot ==
  /\ pl = NoPool
  /\ \E side_key \in SideKeys : \E books \in PoolBooksInputs(side_key) :
       pl' = [fn |-> "build_pooled_root", books |-> books, side_key |-> side_key,
              result |-> build_pooled_root(books, side_key)]
  /\ UNCHANGED beside_pool

\* One call of _build_side, as orderbook_all makes it for a side
BuildSide ==
  /\ pl = NoPool
  /\ \E books \in SideBooksInputs :
       pl' = [fn |-> "_build_side", books |-> books, side_key |-> "both",
              result |-> _build_side(books)]
  /\ UNCHANGED beside_pool

PoolNext == BuildPooled \/ BuildPooledRoot \/ BuildSide

PoolSpec == Init /\ [][PoolNext]_vars

(***************************************************************************)
(* The order book adapters.                                                *)
(*                                                                         *)
(* get_orderbook of the limitless adapters parses the prices the venue     *)
(* sends as decimal strings into floats, and for side "no" computes        *)
(* 1 - price in floats.  A float is modelled here as the numerator of a    *)
(* fraction of denominator One whose significand holds SigBits bits,       *)
(* rounded to nearest, ties to even, as float() and the float subtraction  *)
(* round; SigBits bits stand for the 53 of a double and the Ticks price    *)
(* steps of the venue for its thousand steps of a tenth of a cent, so      *)
(* that, as in the code, a price step is much coarser than the spacing of  *)
(* the floats.  price_cents is counted in price steps.  Sizes pass through *)
(* unchanged and are whole numbers; total and cumsum of a level are left   *)
(* out.                                                                    *)
(***************************************************************************)
MaxBookLevels == 2
SigBits == 6
Sig == 2 ^ SigBits
One == 8 * Sig
Ticks == 10
Shown == 5

\* The spacing of the floats around num / den (in One-ths)
Quantum(num, den) ==
  CHOOSE q \in {2 ^ k : k \in 0..(SigBits + 8)} :
    /\ num < q * Sig * den
    /\ q = 1 \/ num >= (q \div 2) * Sig * den

\* The multiple of q nearest to num / den, ties to the even multiple
Nearest(num, den, q) ==
  LET k == num \div (den * q)
      r == num - k * den * q
  IN IF 2 * r < q * den THEN k * q
     ELSE IF 2 * r > q * den THEN (k + 1) * q
     ELSE IF k % 2 = 0 THEN k * q ELSE (k + 1) * q

\* The float nearest to num / den
FloatOf(num, den) == IF num = 0 THEN 0 ELSE Nearest(num, den, Quantum(num, den))

\* float("0.d") of a price of d steps
float(d) == FloatOf(d * One, Ticks)

\* 1 - price, one float operation
OneMinus(price) == FloatOf(One - price, 1)

\* round(price * 100, 1): the product is a float, then the nearest step
price_cents_of(price) == Nearest(FloatOf(price * Ticks, 1), One, 1)

TickPrices == {1, 3, 6, 8}

BookSizes == {1, 2}

\* One side as the venue sends it: one level per price, in any order
DataSides ==
  {l \in UNION {[1..n -> [price : TickPrices, size : BookSizes]] : n \in 0..MaxBookLevels} :
     \A i \in DOMAIN l : \A j \in DOMAIN l : i # j => l[i].price # l[j].price}

DataInputs == [bids : DataSides, asks : DataSides]

BookSides == {"yes", "no"}

\* raw_bids, raw_asks of the venue's data
Parsed(side) == [i \in DOMAIN side |-> [price |-> float(side[i].price), size |-> side[i].size]]

Mirrored(side) == [i \in DOMAIN side |-> [price |-> OneMinus(side[i].price), size |-> side[i].size]]

_enrich(levels) ==
  [i \in DOMAIN levels |->
     [price |-> levels[i].price, size |-> levels[i].size,
      price_cents |-> price_cents_of(levels[i].price)]]

Reversed(l) == [i \in DOMAIN l |-> l[Len(l) + 1 - i]]

FirstOf(l, n) == SubSeq(l, 1, Min(n, Len(l)))

\* for side "no" the bids and the asks are swapped without 1 - price
get_orderbookSwapOnly(raw_bids, raw_asks, side) ==
  LET b == IF side = "no" THEN raw_asks ELSE raw_bids
      a == IF side = "no" THEN raw_bids ELSE raw_asks
      asks == _enrich(sorted(a, FALSE))
      bids == _enrich(sorted(b, TRUE))
  IN [side |-> side, asks |-> asks, bids |-> bids,
      best_ask |-> IF asks # << >> THEN asks[1].price_cents ELSE 0,
      best_bid |-> IF bids # << >> THEN bids[1].price_cents ELSE 0]

\* get_orderbook of the backend from the parsed lists on
get_orderbook(raw_bids, raw_asks, side) ==
  LET b == IF side = "no" THEN Mirrored(raw_asks) ELSE raw_bids
      a == IF side = "no" THEN Mirrored(raw_bids) ELSE raw_asks
      asks == _enrich(sorted(a, FALSE))
      bids == _enrich(sorted(b, TRUE))
  IN [side |-> side, asks |-> asks, bids |-> bids,
      best_ask |-> IF asks # << >> THEN asks[1].price_cents ELSE 0,
      best_bid |-> IF bids # << >> THEN bids[1].price_cents ELSE 0]

\* get_orderbook of the top-level copy: the Shown best levels of a side,
\* the asks listed from the highest of them down
get_orderbook_root(raw_bids, raw_asks, side) ==
  LET b == IF side = "no" THEN Mirrored(raw_asks) ELSE raw_bids
      a == IF side = "no" THEN Mirrored(raw_bids) ELSE raw_asks
      asks == _enrich(Reversed(FirstOf(sorted(a, FALSE), Shown)))
      bids == _enrich(FirstOf(sorted(b, TRUE), Shown))
  IN [side |-> side, asks |-> asks, bids |-> bids,
      best_ask |-> IF asks # << >> THEN price_cents_of(asks[Len(asks)].price) ELSE 0,
      best_bid |-> IF bids # << >> THEN price_cents_of(bids[1].price) ELSE 0]

BookOf(fn, raw_bids, raw_asks, side) ==
  IF fn = "get_orderbook" THEN get_orderbook(raw_bids, raw_asks, side)
  ELSE get_orderbook_root(raw_bids, raw_asks, side)

\* price and size of the levels, as the venue's lists carry them
RawOf(levels) == [i \in DOMAIN levels |-> [price |-> levels[i].price, size |-> levels[i].size]]

\* One call of get_orderbook of the backend on any data of the venue
GetOrderbook ==
  /\ ad = NoBook
  /\ \E data \in DataInputs : \E side \in BookSides :
       ad' = [NoBook EXCEPT !.fn = "get_orderbook", !.data = data, !.side = side,
              !.books = << get_orderbook(Parsed(data.bids), Parsed(data.asks), side) >>]
  /\ UNCHANGED beside_adapter

\* One call of get_orderbook of the top-level copy
GetOrderbookRoot ==
  /\ ad = NoBook
  /\ \E data \in DataInputs : \E side \in BookSides :
       ad' = [NoBook EXCEPT !.fn = "get_orderbook_root", !.data = data, !.side = side,
              !.books = << get_orderbook_root(Parsed(data.bids), Parsed(data.asks), side) >>]
  /\ UNCHANGED beside_adapter

\* The reflection of the last book: its levels taken as the lists of the
\* venue and turned into the other side
Reflect ==
  /\ ad.fn \in {"get_orderbook", "get_orderbook_root"}
  /\ Len(ad.books) < 3
  /\ LET book == ad.books[Len(ad.books)]
     IN ad' = [ad EXCEPT !.books =
                 Append(@, BookOf(ad.fn, RawOf(book.bids), RawOf(book.asks), "no"))]
  /\ UNCHANGED beside_adapter

\* Shares are counted in millionths: limitless sends its sizes so, the
\* other venues send shares
Divisor == 1000000

OfferVenues == {"polymarket", "limitless", "opinion"}

OfferSides == {"BUY", "SELL"}

\* get_orderbook of the relayer adapters: both sides parsed and sorted,
\* and no level at all when opinion answers with an error number
relayer_get_orderbook(venue, data, errno) ==
  LET parsed(side) ==
        [i \in DOMAIN side |->
           [price |-> float(side[i].price),
            size |-> IF venue = "limitless" THEN side[i].size ELSE side[i].size * Divisor]]
  IN IF venue = "opinion" /\ errno # 0 THEN [bids |-> << >>, asks |-> << >>]
     ELSE [bids |-> sorted(parsed(data.bids), TRUE), asks |-> sorted(parsed(data.asks), FALSE)]

\* the first level of the venue's list, not of the sorted one
get_best_offerAsSent(venue, data, errno, side) ==
  LET book == relayer_get_orderbook(venue, data, errno)
      sent == IF side = "BUY" THEN data.asks ELSE data.bids
      levels == IF side = "BUY" THEN book.asks ELSE book.bids
  IN IF levels # << >>
     THEN [price |-> float(sent[1].price),
           size |-> CHOOSE z \in {levels[i].size : i \in DOMAIN levels} :
                      \E i \in DOMAIN levels :
                        levels[i].price = float(sent[1].price) /\ levels[i].size = z,
           side |-> side]
     ELSE [price |-> 0, size |-> 0, side |-> side]

get_best_offer(venue, data, errno, side) ==
  LET book == relayer_get_orderbook(venue, data, errno)
      levels == IF side = "BUY" THEN book.asks ELSE book.bids
  IN IF levels # << >>
     THEN [price |-> levels[1].price, size |-> levels[1].size, side |-> side]
     ELSE [price |-> 0, size |-> 0, side |-> side]

\* One call of get_best_offer of a relayer adapter on any data of its venue
GetBestOffer ==
  /\ ad = NoBook
  /\ \E venue \in OfferVenues : \E data \in DataInputs : \E side \in OfferSides :
       \E errno \in IF venue = "opinion" THEN {0, 1} ELSE {0} :
         ad' = [NoBook EXCEPT !.fn = "get_best_offer", !.data = data, !.side = side,
                !.venue = venue, !.errno = errno,
                !.offer = get_best_offer(venue, data, errno, side)]
  /\ UNCHANGED beside_adapter

AdapterNext == GetOrderbook \/ GetOrderbookRoot \/ Reflect \/ GetBestOffer

AdapterSpec == Init /\ [][AdapterNext]_vars

(***************************************************************************)
(* The route and orderbook requests.                                       *)
(*                                                                         *)
(* Both handlers gather get_orderbook of every adapter with                *)
(* return_exceptions=True: what a venue contributes is a book, the error   *)
(* result of an adapter that does not know the event, or the exception     *)
(* its fetch raised.  A response is the status of the request and its      *)
(* body; an exception that leaves the handler gives status 500.            *)
(***************************************************************************)
ADAPTERS == << "polymarket", "limitless", "opinion" >>

Raised == [raised |-> "timeout"]

IsException(res) == "raised" \in DOMAIN res

\* The venue's book for a route: the walked side holds up to two levels
FetchedForRoute(v, direction) ==
  {Raised, ErrorBook} \cup
  {[platform |-> v,
    asks |-> IF direction = "buy" THEN l ELSE << >>,
    bids |-> IF direction = "sell" THEN Reversed(l) ELSE << >>] :
     l \in {<< >>, << Level(1, PriceDen) >>, << Level(2, PriceDen) >>,
            << Level(1, PriceDen), Level(2, PriceDen) >>}}

\* The venue's book for a pooled side
FetchedForPool ==
  {Raised, ErrorBook,
   [asks |-> << PoolLevel(2, 2) >>, bids |-> << >>],
   [asks |-> << PoolLevel(2 * MaxKey, 5) >>, bids |-> << PoolLevel(2, 5) >>]}

Response(status, body) == [status |-> status, body |-> body]

\* errors of route(): an entry per venue the loop files as failed
ErrorsOf(results, failing) ==
  [v \in {ADAPTERS[i] : i \in failing} |->
     LET res == results[CHOOSE i \in DOMAIN ADAPTERS : ADAPTERS[i] = v]
     IN IF IsException(res) THEN res.raised ELSE res.error]

\* route() of backend/main.py
route(results, budget, direction) ==
  LET failed(res) == IsException(res) \/ "error" \in DOMAIN res
      full_books == SelectSeq(results, LAMBDA res : ~ failed(res))
  IN Response(200, [result |-> find_optimal_route(full_books, budget, direction),
                    adapter_errors |-> ErrorsOf(results, {j \in DOMAIN results : failed(results[j])})])

\* route() of main.py: only exceptions are set aside, and the function it
\* calls reads book["platform"] of every book once the budget is accepted
route_root(results, budget, direction) ==
  LET full_books == SelectSeq(results, LAMBDA res : ~ IsException(res))
  IN IF budget > 0 /\ \E i \in DOMAIN full_books : "platform" \notin DOMAIN full_books[i]
     THEN Response(500, [result |-> [error |-> "KeyError"], adapter_errors |-> NoMap])
     ELSE Response(200,
            [result |-> find_optimal_route_root(
                          SelectSeq(full_books, LAMBDA res : "platform" \in DOMAIN res),
                          budget, direction),
             adapter_errors |->
               ErrorsOf(results, {j \in DOMAIN results : IsException(results[j])})])

BookSideNames == << "yes", "no" >>

_build_side_root(books) ==
  LET asks == sorted(build_pooled_root(books, "asks"), FALSE)
      bids == sorted(build_pooled_root(books, "bids"), TRUE)
  IN [asks |-> asks, bids |-> bids,
      best_ask |-> IF asks # << >> THEN asks[1].price_cents ELSE 0,
      best_bid |-> IF bids # << >> THEN bids[1].price_cents ELSE 0]

\* orderbook_all: results[side] are the results of the adapters for a side;
\* copy names the file, whose _build_side is called
orderbook_all(results, copy) ==
  Response(200,
    [side \in {"yes", "no"} |->
       [platforms |->
          [v \in {ADAPTERS[i] : i \in DOMAIN ADAPTERS} |->
             LET res == results[side][CHOOSE i \in DOMAIN ADAPTERS : ADAPTERS[i] = v]
             IN IF IsException(res) THEN [error |-> res.raised] ELSE res],
        pooled |->
          LET books == SelectSeq(results[side], LAMBDA res : ~ IsException(res))
          IN IF copy = "root" THEN _build_side_root(books) ELSE _build_side(books)]])

RouteResults(direction) ==
  {r \in [DOMAIN ADAPTERS -> UNION {FetchedForRoute(ADAPTERS[i], direction) : i \in DOMAIN ADAPTERS}] :
     \A i \in DOMAIN ADAPTERS : r[i] \in FetchedForRoute(ADAPTERS[i], direction)}

\* One /api/route request of the backend
RouteRequest ==
  /\ hr = NoRequest
  /\ \E direction \in Directions : \E results \in RouteResults(direction) :
       \E budget \in -1..MaxBudget :
         hr' = [fn |-> "route", results |-> results, budget |-> budget,
                direction |-> direction,
                response |-> route(results, budget, direction)]
  /\ UNCHANGED beside_request

\* One /api/route request of the top-level copy
RouteRequestRoot ==
  /\ hr = NoRequest
  /\ \E direction \in Directions : \E results \in RouteResults(direction) :
       \E budget \in -1..MaxBudget :
         hr' = [fn |-> "route_root", results |-> results, budget |-> budget,
                direction |-> direction,
                response |-> route_root(results, budget, direction)]
  /\ UNCHANGED beside_request

\* One /api/orderbook/all request of the backend
OrderbookAll ==
  /\ hr = NoRequest
  /\ \E results \in [{"yes", "no"} -> [DOMAIN ADAPTERS -> FetchedForPool]] :
       hr' = [fn |-> "orderbook_all", results |-> results, budget |-> 0,
              direction |-> "buy",
              response |-> orderbook_all(results, "backend")]
  /\ UNCHANGED beside_request

\* One /api/orderbook/all request of the top-level copy
OrderbookAllRoot ==
  /\ hr = NoRequest
  /\ \E results \in [{"yes", "no"} -> [DOMAIN ADAPTERS -> FetchedForPool]] :
       hr' = [fn |-> "orderbook_all_root", results |-> results, budget |-> 0,
              direction |-> "buy",
              response |-> orderbook_all(results, "root")]
  /\ UNCHANGED beside_request

RequestNext == RouteRequest \/ RouteRequestRoot \/ OrderbookAll \/ OrderbookAllRoot

RequestSpec == Init /\ [][RequestNext]_vars

(***************************************************************************)
(* The amounts of the orders sent to the venues.                           *)
(*                                                                         *)
(* _execute_trades and _execute_sell with their numbers.  Money and        *)
(* shares are whole counts of the smallest unit of a token on chain, of    *)
(* which SubPerCent make a cent (a hundredth of a share): spent and the    *)
(* balances read on chain are finer than a cent.  The code divides a raw   *)
(* balance by 10 ** decimals in floats: for the tokens of six decimals     *)
(* every amount is a float, for those of eighteen (opinion) the floats     *)
(* are FloatStep units apart and the quotient is the nearest of them,      *)
(* ties to even.  math.floor(x * 100) / 100 is the floor to whole cents;   *)
(* the dollar of the minimum order is DollarCents cents.  A price is a     *)
(* count of PriceDen-ths.  An order that a venue accepts is filled at      *)
(* once (fill or kill) and paid from the balance of the trading address    *)
(* on the venue's chain, which also holds the funds of other orders.       *)
(***************************************************************************)
MaxFunds == 19
SubPerCent == 4
FloatStep == 2
DollarCents == 2
Dollar == DollarCents * SubPerCent

PLATFORM_DECIMALS(p) == IF p = "opinion" THEN 18 ELSE 6

\* raw / 10 ** decimals as the float division returns it
Human(pname, raw) ==
  IF PLATFORM_DECIMALS(pname) = 18 THEN Nearest(raw, 1, FloatStep) ELSE raw

TradeVenues == {"polymarket", "opinion", "limitless"}

\* platforms.items() of an order: the venues in the order of the route
TradeVenueLists ==
  {<< "polymarket" >>, << "polymarket", "limitless" >>, << "opinion", "polymarket" >>}

SpentInputs == {0, 6, 9, MaxFunds}

BalanceInputs == {0, 11, 2 * MaxFunds}

\* best ask, or best bid, of the venue: 0 when it has none
AskInputs == {0, 3}

\* the adapter is not configured, place_order raises, or the venue accepts
\* (it refuses, and place_order raises, when the order is for more than
\* the address holds)
PlaceInputs == {"unconfigured", "raise", "ok"}

Cents(x) == x \div SubPerCent

\* math.floor(x * 100) / 100
floor2(x) == SubPerCent * Cents(x)

\* place_order of the polymarket adapter, BUY: the dollars of the order
\* from the shares and the price, floored to whole cents
poly_order_amount(amount, price) == Times(amount, price)

\* What the venue is asked to spend (in cents) by place_order for a BUY
Submitted(pname, actual_spent, price) ==
  IF pname = "polymarket"
  THEN poly_order_amount(Over(Cents(actual_spent), price), price)
  ELSE Cents(actual_spent)

NotPlaced == [placed |-> FALSE, cents |-> 0, accepted |-> FALSE]

\* One venue of the loop of _execute_trades: the entry of results (none
\* when the venue is skipped), what was read and what place_order sent
BuyOn(pname, pdata, balance, ask, place) ==
  LET actual_balance == Human(pname, balance)
      actual_spent == floor2(Min(pdata.spent, actual_balance))
      read == [spent |-> pdata.spent, balance |-> balance, actual_spent |-> actual_spent]
  IN IF ~ pdata.token_id \/ pdata.spent <= 0
     THEN [result |-> "skipped", read |-> read, order |-> NotPlaced]
     ELSE IF place = "unconfigured"
     THEN [result |-> "error", read |-> read, order |-> NotPlaced]
     ELSE IF actual_spent < Dollar
     THEN [result |-> "error", read |-> read, order |-> NotPlaced]
     ELSE IF ask <= 0
     THEN [result |-> "error", read |-> read, order |-> NotPlaced]
     ELSE IF place = "raise" \/ SubPerCent * Submitted(pname, actual_spent, ask) > balance
     THEN [result |-> "error", read |-> read,
           order |-> [placed |-> TRUE, cents |-> Submitted(pname, actual_spent, ask),
                      accepted |-> FALSE]]
     ELSE [result |-> "placed", read |-> read,
           order |-> [placed |-> TRUE, cents |-> Submitted(pname, actual_spent, ask),
                      accepted |-> TRUE]]

\* _execute_trades: the venues one after the other
_execute_trades(o, balances, in) ==
  [i \in DOMAIN o.venues |->
     BuyOn(o.venues[i], o.platforms[i], balances[o.venues[i]], in[i].ask, in[i].place)]

\* What poll_orders makes of an attempt
trade_step(o, calls) ==
  LET results == {i \in DOMAIN calls : calls[i].result # "skipped"}
      ok == results # {} /\ \A i \in results : calls[i].result = "placed"
      retries == IF o.trade_retries = Absent THEN 0 ELSE o.trade_retries
  IN IF ok THEN [o EXCEPT !.status = "matched"]
     ELSE [o EXCEPT !.trade_retries = retries + 1,
                    !.status = IF retries + 1 >= MAX_RETRIES THEN "trade_failed" ELSE o.status]

\* A buy order whose funds have arrived, and the balances of the trading
\* addresses
TrBridged ==
  /\ tr = NoTrade
  /\ \E venues \in TradeVenueLists :
       \E spent \in [DOMAIN venues -> SpentInputs] :
         \E token \in [DOMAIN venues -> BOOLEAN] :
           \E balances \in [TradeVenues -> BalanceInputs] :
             /\ \A v \in TradeVenues :
                  (\A i \in DOMAIN venues : venues[i] # v) => balances[v] = 0
             /\ tr' = [NoTrade EXCEPT
                         !.order = [direction |-> "buy", status |-> "bridged",
                                    venues |-> venues,
                                    platforms |-> [i \in DOMAIN venues |->
                                                     [token_id |-> token[i], spent |-> spent[i]]],
                                    trade_retries |-> Absent, shares_amount |-> 0],
                         !.balances = balances]
  /\ UNCHANGED beside_trade

\* One pass of poll_orders over the order: an attempt of _execute_trades
TrExecuteTrades ==
  /\ tr.order.direction = "buy"
  /\ tr.order.status \in {"bridged", "trade_failed"}
  /\ ~ (tr.order.status = "trade_failed"
        /\ (tr.order.trade_retries = Absent \/ tr.order.trade_retries >= MAX_RETRIES))
  /\ \E in \in [DOMAIN tr.order.venues -> [ask : AskInputs, place : PlaceInputs]] :
       LET calls == _execute_trades(tr.order, tr.balances, in)
           paid(v) == IF \E i \in DOMAIN calls : tr.order.venues[i] = v /\ calls[i].order.accepted
                      THEN SubPerCent *
                           calls[CHOOSE i \in DOMAIN calls : tr.order.venues[i] = v].order.cents
                      ELSE 0
       IN tr' = [tr EXCEPT
                   !.order = trade_step(tr.order, calls),
                   !.calls = calls,
                   !.balances = [v \in TradeVenues |-> tr.balances[v] - paid(v)],
                   !.accepted = [v \in TradeVenues |->
                                   IF \E i \in DOMAIN calls :
                                        tr.order.venues[i] = v /\ calls[i].order.accepted
                                   THEN Min(@[v] + 1, 2) ELSE @[v]]]
  /\ UNCHANGED beside_trade

SharesInputs == {0, 7, 11, MaxFunds}

\* _execute_sell: the shares of the order floored to hundredths and sold
\* at the best bid, unless the order is worth less than the venue's minimum
_execute_sell(platform, shares, bid, place, sw_bal, balance_before) ==
  LET amount == floor2(Human(platform, shares))
      below == IF platform = "opinion"
               THEN 10 * Cents(amount) * bid < 13 * DollarCents * PriceDen
               ELSE Cents(amount) * bid < DollarCents * PriceDen
      none == [result |-> "error", amount |-> amount, order |-> NotPlaced, balance_before |-> 0]
  IN IF place = "unconfigured" THEN none
     ELSE IF bid <= 0 THEN none
     ELSE IF below THEN none
     ELSE IF platform = "opinion" /\ sw_bal <= 0 THEN none
     ELSE [result |-> IF place = "ok" THEN "placed" ELSE "error",
           amount |-> amount,
           order |-> [placed |-> TRUE, cents |-> Cents(amount), accepted |-> place = "ok"],
           balance_before |-> balance_before]

\* One call of _execute_sell on a sell order of any venue
TrExecuteSell ==
  /\ tr = NoTrade
  /\ \E platform \in TradeVenues : \E shares \in SharesInputs : \E bid \in AskInputs :
       \E place \in PlaceInputs : \E sw_bal \in {0, MaxFunds} :
         \E balance_before \in BalanceInputs :
           tr' = [NoTrade EXCEPT
                    !.order = [direction |-> "sell", status |-> "shares_pulled",
                               venues |-> << platform >>,
                               platforms |-> << [token_id |-> TRUE, spent |-> 0] >>,
                               trade_retries |-> Absent, shares_amount |-> shares],
                    !.sell = << _execute_sell(platform, shares, bid, place, sw_bal,
                                              balance_before) >>]
  /\ UNCHANGED beside_trade

TradeNext == TrBridged \/ TrExecuteTrades \/ TrExecuteSell

TradeSpec == Init /\ [][TradeNext]_vars

(***************************************************************************)
(* The trading address shared by the orders.                               *)
(*                                                                         *)
(* Every order of a venue is traded from one address: the relayer's on     *)
(* polymarket and limitless, the smart wallet on opinion.  Two buy orders  *)
(* of two wallets for the same token are followed from matched on, with    *)
(* the sell orders made of them, next to the balances the steps read:      *)
(* the shares and the stablecoin of the address and the shares of the      *)
(* wallets.  Shares and stablecoin are whole units and a share sells for   *)
(* one unit.  bought, attributable and own record what an order bought,    *)
(* what its wallet could sell and what its sale paid; no step reads them.  *)
(* The retry counters are left out: a step that has to be retried leaves   *)
(* the order as it is, or it was the last retry and the order fails.       *)
(***************************************************************************)
MaxShares == 2
MaxSells == 2

Wallets == << "w1", "w2" >>

SharedBuy(w, n) ==
  [wallet |-> w, bought |-> n, arrived |-> FALSE, status |-> "matched", amount |-> 0,
   both |-> FALSE]

\* Two buy orders of the two wallets were matched on a venue
ShMatched ==
  /\ sh = NoShared
  /\ \E venue \in TradeVenues : \E n \in [DOMAIN Wallets -> 1..MaxShares] :
       sh' = [NoShared EXCEPT !.venue = venue,
                              !.buys = [i \in DOMAIN Wallets |-> SharedBuy(Wallets[i], n[i])]]
  /\ UNCHANGED beside_shared

\* The venue settles the trade of a buy order: its shares reach the address
ShSharesArrive(i) ==
  /\ ~ sh.buys[i].arrived
  /\ sh' = [sh EXCEPT !.buys[i].arrived = TRUE, !.shares = @ + sh.buys[i].bought]
  /\ UNCHANGED beside_shared

\* poll_orders, step 3, on a matched buy order: _settle_and_transfer sends
\* the balance of the address to the wallet (on opinion it stays); both
\* records whether the shares of every buy order were on the address then
ShSettleAndTransfer(i) ==
  /\ sh.buys[i].status = "matched"
  /\ LET o == sh.buys[i]
         balance == sh.shares
         both == \A k \in DOMAIN sh.buys : sh.buys[k].arrived /\ sh.buys[k].status = "matched"
         retried == [sh EXCEPT !.buys[i].status = "trade_failed"]
     IN IF balance > 0
        THEN IF sh.venue = "opinion"
             THEN sh' = [sh EXCEPT !.buys[i].status = "filled", !.buys[i].amount = balance,
                                   !.buys[i].both = both]
             ELSE \E success \in BOOLEAN :
                    sh' = IF success
                          THEN [sh EXCEPT !.buys[i].status = "filled",
                                          !.buys[i].amount = balance,
                                          !.buys[i].both = both,
                                          !.shares = 0,
                                          !.held[o.wallet] = @ + balance]
                          ELSE retried
        ELSE sh' = retried
  /\ UNCHANGED beside_shared

RECURSIVE SumSeq(_)
SumSeq(q) == IF q = << >> THEN 0 ELSE Head(q) + SumSeq(Tail(q))

\* What the filled buys of a wallet left for it to sell
Attributable(w) ==
  IF sh.venue = "opinion"
  THEN SumSeq([i \in DOMAIN sh.buys |->
                 IF sh.buys[i].wallet = w /\ sh.buys[i].status = "filled"
                 THEN sh.buys[i].bought ELSE 0])
       - SumSeq([j \in DOMAIN sh.sells |->
                   IF sh.sells[j].wallet = w THEN sh.sells[j].shares_amount ELSE 0])
  ELSE sh.held[w]

SharedSell(w, n, had) ==
  [wallet |-> w, shares_amount |-> n, attributable |-> had, status |-> "shares_pulled",
   balance_before |-> 0, sold |-> FALSE, paid |-> FALSE, own |-> 0, proceeds |-> 0]

\* create_sell for a filled buy order: sell_amount 0 stands for none given
ShCreateSell(i, sell_amount, approved, pulled) ==
  /\ sh.buys[i].status = "filled"
  /\ Len(sh.sells) < MaxSells
  /\ LET w == sh.buys[i].wallet
         had == IF sh.venue = "opinion" THEN sh.shares ELSE sh.held[w]
         shares_to_sell == Min(IF sell_amount > 0 THEN sell_amount ELSE had, had)
     IN /\ had > 0
        /\ sh.venue # "opinion" => approved /\ pulled
        /\ sh' = [sh EXCEPT
                    !.sells = Append(@, SharedSell(w, shares_to_sell, Attributable(w))),
                    !.held[w] = IF sh.venue = "opinion" THEN @ ELSE @ - shares_to_sell,
                    !.shares = IF sh.venue = "opinion" THEN @ ELSE @ + shares_to_sell]
  /\ UNCHANGED beside_shared

\* poll_orders, sell step 1: _execute_sell snapshots the stablecoin of the
\* address and places the SELL; the venue refuses shares the address lacks
ShExecuteSell(j) ==
  /\ sh.sells[j].status = "shares_pulled"
  /\ IF sh.sells[j].shares_amount <= sh.shares
     THEN sh' = [sh EXCEPT !.sells[j].status = "sell_matched",
                           !.sells[j].balance_before = sh.stable,
                           !.sells[j].sold = TRUE,
                           !.shares = @ - sh.sells[j].shares_amount]
     ELSE sh' = [sh EXCEPT !.sells[j].status = "trade_failed"]
  /\ UNCHANGED beside_shared

\* The venue pays a sale: the stablecoin reaches the address
ShSalePaid(j) ==
  /\ sh.sells[j].sold
  /\ ~ sh.sells[j].paid
  /\ sh' = [sh EXCEPT !.sells[j].paid = TRUE,
                      !.sells[j].own = sh.sells[j].shares_amount,
                      !.stable = @ + sh.sells[j].shares_amount]
  /\ UNCHANGED beside_shared

\* The bridged funds of another buy order reach the address
ShFundsArrive ==
  /\ sh.venue # "none"
  /\ ~ sh.funded
  /\ sh' = [sh EXCEPT !.funded = TRUE, !.stable = @ + 1]
  /\ UNCHANGED beside_shared

\* poll_orders, sell step 2: _settle_sell takes what the balance grew by
\* since the snapshot for the proceeds
ShSettleSell(j) ==
  /\ sh.sells[j].status = "sell_matched"
  /\ LET o == sh.sells[j]
         balance == sh.stable
     IN IF balance > o.balance_before
        THEN sh' = [sh EXCEPT !.sells[j].status = "sell_settled",
                              !.sells[j].proceeds = balance - o.balance_before]
        ELSE sh' = [sh EXCEPT !.sells[j].status = "trade_failed"]
  /\ UNCHANGED beside_shared

\* poll_orders, sell step 3: _bridge_back sends the proceeds to the wallet;
\* the transfer fails when the address holds less
ShBridgeBack(j) ==
  /\ sh.sells[j].status = "sell_settled"
  /\ LET o == sh.sells[j]
     IN IF o.proceeds <= sh.stable
        THEN sh' = [sh EXCEPT !.sells[j].status = "completed",
                              !.stable = @ - o.proceeds,
                              !.paid[o.wallet] = @ + o.proceeds]
        ELSE sh' = [sh EXCEPT !.sells[j].status = "bridge_failed"]
  /\ UNCHANGED beside_shared

SharedNext ==
  \/ ShMatched
  \/ \E i \in DOMAIN sh.buys : ShSharesArrive(i)
  \/ \E i \in DOMAIN sh.buys : ShSettleAndTransfer(i)
  \/ \E i \in DOMAIN sh.buys : \E sell_amount \in 0..MaxShares :
       \E approved \in BOOLEAN : \E pulled \in BOOLEAN :
         ShCreateSell(i, sell_amount, approved, pulled)
  \/ \E j \in DOMAIN sh.sells : ShExecuteSell(j)
  \/ \E j \in DOMAIN sh.sells : ShSalePaid(j)
  \/ ShFundsArrive
  \/ \E j \in DOMAIN sh.sells : ShSettleSell(j)
  \/ \E j \in DOMAIN sh.sells : ShBridgeBack(j)

SharedSpec == Init /\ [][SharedNext]_vars

(***************************************************************************)
(* Properties.                                                             *)
(***************************************************************************)
OnDisk == DOMAIN disk

Buys == {i \in OnDisk : disk[i].direction = "buy"}

Sells == {i \in OnDisk : disk[i].direction = "sell"}

\* C1: once the persisted status of an order is killed it is killed in
\* every later state, whatever the progress loop commits.
KilledAbsorbing ==
  [][\A i \in OnDisk :
       disk[i].status = "killed" =>
         i \in DOMAIN disk' /\ disk'[i].status = "killed"]_vars

NonTerminal(o) ==
  o.status \in {"sent", "bridged", "matched",
                "shares_pulled", "sell_matched", "sell_settled", "bridging_back"}

Terminal(o) ==
  \/ o.status \in {"filled", "completed", "failed", "trade_failed", "killed"}
  \/ o.status = "bridge_failed" /\ Get(o.bridge_retries, 0) >= MAX_RETRIES

\* C2: an order with a non-terminal persisted status eventually has a
\* terminal persisted status, whatever the external calls return.
ReachesTerminal ==
  \A i \in 1..MaxOrders :
    (i \in OnDisk /\ NonTerminal(disk[i])) ~> (i \in OnDisk /\ Terminal(disk[i]))

\* C3: a filled buy order has, for every venue of its platforms map, a
\* transfer_results entry that is a successful transfer or the kept marker.
FilledHasAllTransfers ==
  \A i \in Buys :
    disk[i].status = "filled" =>
      \A v \in Names(disk[i].platforms) :
        /\ v \in DOMAIN disk[i].transfer_results
        /\ disk[i].transfer_results[v] \in {"ok", "kept"}

\* Witness for C4: a commit has just been written in a tick that changed an
\* order, while the disk held an order that was appended, and then killed,
\* after the tick's snapshot; the appended order is still there, killed.
CommitKeptAppendedAndKilled ==
  /\ pc = "saved"
  /\ changed
  /\ Len(disk) > Len(orders)
  /\ disk[Len(disk)].status = "killed"
  /\ disk[Len(disk)].id \notin changed_ids

\* C4: a commit leaves the persisted record of every order that is not in
\* the tick's changed set as it was on disk immediately before the commit.
CommitKeepsUnchanged ==
  [][(pc = "loop" /\ pc' = "saved") =>
       /\ Len(disk') = Len(disk)
       /\ \A i \in OnDisk : disk[i].id \notin changed_ids => disk'[i] = disk[i]]_vars

\* Witness for C5: a buy order whose five trade attempts all failed
TradeRetriesExhausted ==
  \E i \in Buys :
    /\ disk[i].status = "trade_failed"
    /\ disk[i].trade_retries = MAX_RETRIES
    /\ tradeCalls[disk[i].id] = MAX_RETRIES

\* C5: a buy order is bridged while fewer than 5 of its trade attempts have
\* failed, the persisted trade_retries counting the failed attempts; after
\* the 5th failure it is trade_failed with trade_retries = 5 and the error of
\* the last attempt; _execute_trades is never called a 6th time for it.
TradeRetryBound ==
  \A i \in Buys :
    LET o == disk[i]
        r == Get(o.trade_retries, 0)
        n == tradeCalls[o.id]
    IN  /\ n <= MAX_RETRIES
        /\ o.status = "bridged" => r < MAX_RETRIES /\ r <= n /\ n <= r + 1
        /\ o.status = "trade_failed" =>
             /\ r = MAX_RETRIES
             /\ n = MAX_RETRIES
             /\ o.trade_error = lastTradeError[o.id]
             /\ o.trade_error # "none"

\* C6: the settle_retries count left by a tick in its copy of a matched or
\* sell_matched order is the count the persisted record holds after the tick.
SettleCountCarriedOver ==
  pc = "saved" =>
    \A i \in OnDisk :
      disk[i].status \in {"matched", "sell_matched"} =>
        Get(disk[i].settle_retries, 0) = settle_left[disk[i].id]

BuyEdges ==
  { <<"sent", "bridged">>, <<"sent", "failed">>,
    <<"bridged", "matched">>, <<"bridged", "trade_failed">>,
    <<"matched", "filled">>, <<"matched", "trade_failed">> }

\* C8: the persisted status of a buy order changes only along the edges of
\* the buy table or to killed, and killed is never left.
BuyStatusOrder ==
  [][\A i \in Buys :
       \/ disk'[i].status = disk[i].status
       \/ disk'[i].status = "killed"
       \/ << disk[i].status, disk'[i].status >> \in BuyEdges]_vars

\* Witness for C9: a tick that has advanced two orders
TwoOrdersAdvanced ==
  /\ pc = "saved"
  /\ Cardinality(changed_ids) = 2
  /\ \A id \in changed_ids : touched[id] = 1

\* C9: within one tick the loop runs the arm of an order at most once.
OneTransitionPerTick == \A id \in Ids : touched[id] <= 1

\* C10: a killed order has every retry counter above its bound.
KilledCountersInflated ==
  \A i \in OnDisk :
    disk[i].status = "killed" =>
      /\ Get(disk[i].trade_retries, 0) > MAX_RETRIES
      /\ Get(disk[i].settle_retries, 0) > SettleBound
      /\ Get(disk[i].bridge_retries, 0) > MAX_RETRIES

\* C11: every write of the file happens under the lock, and what a reader
\* without the lock, or the first load after a restart, gets is the complete
\* order set of before the last save or the complete set that save wrote.
SaveIsAtomic ==
  /\ saver # "idle" => lock # "none"
  /\ obs.ok
  /\ obs.recs \in {old, buf}

\* C12: no two transactions submitted from the main EOA on one chain carry
\* the same nonce.
NoNonceReuse == \A n \in 0..MaxTx : uses[n] <= 1

CountTx(kind, c) == Cardinality({i \in DOMAIN co.txs : co.txs[i] = Tx(kind, c)})

RECURSIVE SumSpent(_, _)
SumSpent(platforms, S) ==
  IF S = {} THEN 0
  ELSE LET i == CHOOSE j \in S : TRUE
       IN  platforms[i].spent + SumSpent(platforms, S \ {i})

\* Sum of spent over the venues of a platforms map that are on chain c
SpentOn(platforms, c) ==
  SumSpent(platforms, {i \in DOMAIN platforms : PLATFORM_CHAIN(platforms[i].name) = c})

\* Witness for C14: an order created as sent whose bridges hold the source
\* chain, done, and a foreign chain, sent
CreatedWithSourceChainDone ==
  /\ co.pc = "done"
  /\ co.order.status = "sent"
  /\ \E c, d \in DOMAIN co.bridges :
       /\ c = co.order.from_chain /\ co.bridges[c].status = "done"
       /\ d # co.order.from_chain /\ co.bridges[d].status = "sent"

\* C14: an order created as sent has exactly one bridges entry per distinct
\* target chain of its venues; the entry of the source chain is done with no
\* bridge transaction, the entry of any other chain is sent with one bridge
\* transaction submitted, and the amount of an entry is the sum of spent
\* over the venues on its chain.
OneBridgePerChain ==
  (co.pc = "done" /\ co.order.status = "sent") =>
    LET o == co.order
        b == co.bridges
    IN  /\ DOMAIN b = TargetChains(o.platforms)
        /\ DOMAIN o.bridges = DOMAIN b
        /\ \A c \in DOMAIN b :
             /\ o.bridges[c] = b[c].status
             /\ b[c].amount = Raw(SpentOn(o.platforms, c), o.from_chain)
             /\ c = o.from_chain =>
                  b[c].status = "done" /\ ~ b[c].bridge_tx /\ CountTx("bridge", c) = 0
             /\ c # o.from_chain =>
                  b[c].status = "sent" /\ b[c].bridge_tx /\ CountTx("bridge", c) = 1

AllDone(o) == \A c \in DOMAIN o.bridges : o.bridges[c] = "done"

SomeFailed(o) == \E c \in DOMAIN o.bridges : o.bridges[c] = "failed"

\* The step in which the poll of the bridges of a sent order returns
PollBridgesReturns == InCall("poll_bridges") /\ pc' = "loop"

\* What a tick may do to a sent order: the outcome of the poll in the tick's
\* copy, and the change of the persisted record
SentOrderPolled ==
  /\ PollBridgesReturns =>
       LET o2 == orders'[idx] IN
         /\ o2.status \in {"sent", "bridged", "failed"}
         /\ o2.status = "bridged" <=> AllDone(o2)
         /\ o2.status = "failed" => SomeFailed(o2)
         /\ o2.status = "sent" <=> o2.id \notin changed_ids'
  /\ \A i \in Buys :
       disk[i].status = "sent" =>
         \/ disk'[i] = disk[i]
         \/ disk'[i] = Killed(disk[i])
         \/ disk'[i].status = "bridged" /\ AllDone(disk'[i])
         \/ disk'[i].status = "failed" /\ SomeFailed(disk'[i])

MissingTokenFailsAtCreation ==
  co.pc = "done" =>
    LET o == disk[Len(disk)] IN
      (o.platforms = << >> \/ \E i \in DOMAIN o.platforms : ~ o.platforms[i].token_id)
        => o.status = "failed"

\* C17: when the user's balance on the source chain is below the budget,
\* create_order submits no pull transaction and persists the order as failed.
ShortfallFailsBeforePull ==
  (co.pc # "idle" /\ ~ co.funded) =>
    /\ CountTx("pull", co.order.from_chain) = 0
    /\ co.pc = "done" => disk[Len(disk)].status = "failed"

\* Proceeds below the bridge minimum of one dollar (proceeds = 1 in the
\* scale of SettleSell)
BelowBridgeFloor(o) == o.proceeds = 1

\* C18: a sell whose venue chain is the chain the user chose never passes
\* through bridging_back; a sell to another chain whose proceeds are below
\* the bridge minimum gets no transfer and does not complete.
SmallProceedsNotTransferred ==
  \A i \in Sells :
    LET o == disk[i] IN
      /\ PLATFORM_CHAIN(sell_platform(o)) = o.to_chain => o.status # "bridging_back"
      /\ (PLATFORM_CHAIN(sell_platform(o)) # o.to_chain /\ BelowBridgeFloor(o)) =>
           /\ ~ o.bridge_back_tx
           /\ o.status \notin {"completed", "bridging_back"}

\* Witness for C19: the file holds a sell order, created for a buy whose
\* first venue has no token id
SellCreated ==
  /\ file.whole
  /\ cs.result = "created"
  /\ \E i, j \in DOMAIN file.recs :
       /\ file.recs[i].direction = "sell"
       /\ file.recs[j].id = file.recs[i].buy_order_id
       /\ ~ file.recs[j].platforms[1].token_id

\* C19: a call of create_sell for an order that is not in the file, or is
\* not filled, returns an error with no share pull submitted and no write;
\* a sell order in the file has one venue, which is a venue of the buy it
\* refers to, with that venue's token id.
SellOnlyOfFilledBuy ==
  /\ (cs.order_id # 0 /\ (~ cs.found \/ cs.status # "filled")) =>
       /\ cs.pc = "idle"
       /\ cs.result = "error"
       /\ cs.pulls = 0
       /\ lock # "create_sell"
  /\ cs.pulls <= 1
  /\ file.whole =>
       \A i \in DOMAIN file.recs :
         LET s == file.recs[i] IN
           s.direction = "sell" =>
             /\ Len(s.platforms) = 1
             /\ \E j \in DOMAIN file.recs :
                  LET b == file.recs[j] IN
                    /\ b.id = s.buy_order_id
                    /\ b.direction = "buy"
                    /\ \E k \in DOMAIN b.platforms :
                         /\ b.platforms[k].name = s.platforms[1].name
                         /\ b.platforms[k].token_id
                         /\ s.platforms[1].token_id = b.platforms[k].token_id

\* Witness for C20: a sell that completed after a settlement found at a
\* later poll, over a snapshot that was not zero
CompletedWithProceeds ==
  /\ ss.order.status = "completed"
  /\ ss.settle_results.balance_before > 0
  /\ Cardinality(ss.polled) > 1

\* C20: _settle_sell reports done only with a polled balance strictly above
\* the snapshot taken before the SELL, and not done only after six polls at
\* or below it; a sell order that is sell_settled, bridging_back or
\* completed has proceeds > 0 equal to that balance minus the snapshot.
SettledHasProceeds ==
  /\ ss.result.done =>
       /\ ss.result.balance_after \in ss.polled
       /\ ss.result.balance_after > ss.balance_before
       /\ ss.result.balance_before = ss.balance_before
       /\ ss.result.proceeds = ss.result.balance_after - ss.balance_before
  /\ (ss.pc = "arm" /\ ~ ss.result.done) =>
       /\ ss.attempt = SettlePolls
       /\ \A b \in ss.polled : b <= ss.balance_before
  /\ ss.order.status \in {"sell_settled", "bridging_back", "completed"} =>
       /\ ss.settle_results.done
       /\ ss.settle_results.proceeds > 0
       /\ ss.settle_results.proceeds =
            ss.settle_results.balance_after - ss.settle_results.balance_before
       /\ ss.order.proceeds = ss.settle_results.proceeds

IdsOf(list) == {list[i].id : i \in DOMAIN list}

\* Witness for C21: a commit has been written over a set that holds a sell
\* order and a killed order
CommittedOverSellAndKill ==
  /\ pc = "saved"
  /\ changed
  /\ \E i \in Sells : TRUE
  /\ \E i \in OnDisk : disk[i].status = "killed"

\* C21: every step keeps every order id of the persisted set, and no id
\* occurs twice in it.
IdsOnlyGrow ==
  /\ [](Cardinality(IdsOf(disk)) = Len(disk))
  /\ [][IdsOf(disk) \subseteq IdsOf(disk') /\ Len(disk') >= Len(disk)]_vars

(***************************************************************************)
(* Properties of the routing function.                                     *)
(***************************************************************************)
RouteReturned == rt.fn # "none" /\ "error" \notin DOMAIN rt.result

Abs(x) == IF x < 0 THEN -x ELSE x

\* What a call fills of its budget: dollars for a buy, shares for a sell
Filled(r) == IF r.direction = "buy" THEN r.total_spent ELSE r.total_qty

RECURSIVE SumOf(_, _)
SumOf(fills, field) ==
  IF fills = << >> THEN 0
  ELSE Head(fills)[field] + SumOf(Tail(fills), field)

FillsOn(fills, p) == SelectSeq(fills, LAMBDA f : f.platform = p)

\* C23 as stated: total_qty and total_spent are the sums of size and cost
\* over the fills, per_platform spent and qty the sums over the fills of
\* the venue, and a venue with spent > 0 is in a fill.
TotalsAreSumsOfFills ==
  RouteReturned =>
    LET r == rt.result
    IN /\ r.total_qty = SumOf(r.fills, "size")
       /\ r.total_spent = SumOf(r.fills, "cost")
       /\ \A p \in DOMAIN r.per_platform :
            /\ r.per_platform[p].qty = SumOf(FillsOn(r.fills, p), "size")
            /\ r.per_platform[p].spent = SumOf(FillsOn(r.fills, p), "cost")
            /\ r.per_platform[p].spent > 0 => FillsOn(r.fills, p) # << >>

\* Witness for C23: a route over two venues whose rounded fills do not add
\* up to the rounded total
TwoVenuesFilledOffGrid ==
  /\ RouteReturned
  /\ rt.result.platforms_used = 2
  /\ rt.result.total_qty # SumOf(rt.result.fills, "size")

\* A total rounded once against n addends rounded one by one: each
\* rounding moves a number by at most half a step
Near(total, fills, field) ==
  2 * Abs(total - SumOf(fills, field)) <= (Len(fills) + 1) * Grain

\* C23 (amended): total_qty and total_spent are within half a rounding
\* step per fill, plus half a step, of the sums of size and cost over the
\* fills, each venue's per_platform qty and spent likewise of the sums
\* over that venue's fills, and every venue of per_platform is in a fill.
TotalsAreRoundedSums ==
  RouteReturned =>
    LET r == rt.result
    IN /\ Near(r.total_qty, r.fills, "size")
       /\ Near(r.total_spent, r.fills, "cost")
       /\ \A p \in DOMAIN r.per_platform :
            /\ Near(r.per_platform[p].qty, FillsOn(r.fills, p), "size")
            /\ Near(r.per_platform[p].spent, FillsOn(r.fills, p), "cost")
            /\ FillsOn(r.fills, p) # << >>

\* Witness for C24: a sell filled at two prices
SellFilledAtTwoPrices ==
  /\ RouteReturned
  /\ rt.direction = "sell"
  /\ \E i \in DOMAIN rt.result.fills : \E j \in DOMAIN rt.result.fills :
       rt.result.fills[i].price # rt.result.fills[j].price

\* C24: along the fills of a returned route the price never falls for a
\* buy and never rises for a sell.
FillsInPriceOrder ==
  RouteReturned =>
    \A i \in 1..(Len(rt.result.fills) - 1) :
      IF rt.direction = "buy"
      THEN rt.result.fills[i].price <= rt.result.fills[i + 1].price
      ELSE rt.result.fills[i].price >= rt.result.fills[i + 1].price

\* The levels the call walks, and the notional a platform offers at a price
WalkedLevels == Tagged(rt.full_books, side_key_of(rt.direction))

NotionalAt(p, g) ==
  Notional(SelectSeq(WalkedLevels, LAMBDA lv : lv.platform = p /\ lv.price = g))

Better(a, b) == IF rt.direction = "buy" THEN a < b ELSE a > b

\* The platforms of the fills at prices better than g, and of the fills at g
UsedBefore(g) ==
  {rt.result.fills[i].platform : i \in {i \in DOMAIN rt.result.fills : Better(rt.result.fills[i].price, g)}}

UsedAt(g) ==
  {rt.result.fills[i].platform : i \in {i \in DOMAIN rt.result.fills : rt.result.fills[i].price = g}}

\* Witness for C25: at one price a venue filled at a better price is
\* filled again and is followed by a venue not filled before
KnownThenNewAtOnePrice ==
  /\ RouteReturned
  /\ rt.fn = "backend"
  /\ \E i \in 1..(Len(rt.result.fills) - 1) :
       /\ rt.result.fills[i].price = rt.result.fills[i + 1].price
       /\ rt.result.fills[i].platform \in UsedBefore(rt.result.fills[i].price)
       /\ rt.result.fills[i + 1].platform \notin UsedBefore(rt.result.fills[i].price)

\* C25: at every price the fills of venues filled at a better price come
\* before the fills of any other venue; at most one venue not filled
\* before is filled at that price, its notional at that price is the
\* largest among the venues not filled before, and it is filled whenever
\* the walk went on to a worse price and such a venue offered something.
KnownFirstThenOneNew ==
  (RouteReturned /\ rt.fn = "backend") =>
    LET fills == rt.result.fills
    IN \A g \in {WalkedLevels[i].price : i \in DOMAIN WalkedLevels} :
         LET added == UsedAt(g) \ UsedBefore(g)
             others == {WalkedLevels[i].platform : i \in DOMAIN WalkedLevels} \ UsedBefore(g)
         IN /\ \A i \in DOMAIN fills : \A j \in DOMAIN fills :
                 (i < j /\ fills[i].price = g /\ fills[j].price = g
                        /\ fills[j].platform \in UsedBefore(g))
                   => fills[i].platform \in UsedBefore(g)
            /\ Cardinality(added) <= 1
            /\ \A p \in added : \A q \in others : NotionalAt(q, g) <= NotionalAt(p, g)
            /\ ((\E i \in DOMAIN fills : Better(g, fills[i].price))
                  /\ (\E q \in others : NotionalAt(q, g) > 0))
                 => added # {}

\* The walk that takes every level in price order (the one of
\* src/utils/utils.py) over the books of the platforms in V
GreedyWalk(V) ==
  WalkGroupsRoot(Walk(rt.budget),
                 grouped(SelectSeq(WalkedLevels, LAMBDA lv : lv.platform \in V),
                         rt.direction = "sell"),
                 rt.direction)

AllPlatforms == {rt.full_books[i].platform : i \in DOMAIN rt.full_books}

\* The platforms of V alone give what the walk in price order over all
\* books gives: the same quantity for the same dollars
MatchesGreedy(V) ==
  /\ Total(GreedyWalk(V).per_platform, "qty") = Total(GreedyWalk(AllPlatforms).per_platform, "qty")
  /\ Total(GreedyWalk(V).per_platform, "spent") = Total(GreedyWalk(AllPlatforms).per_platform, "spent")

\* C26: platforms_used is the number of venues with per_platform spent > 0,
\* and no set of fewer venues gives the fills of the walk in price order.
PlatformsUsedMinimal ==
  (RouteReturned /\ rt.fn = "backend") =>
    /\ rt.result.platforms_used
         = Cardinality({p \in DOMAIN rt.result.per_platform : rt.result.per_platform[p].spent > 0})
    /\ \A V \in SUBSET AllPlatforms :
         MatchesGreedy(V) => rt.result.platforms_used <= Cardinality(V)

\* Two books whose best asks have one price and one notional, each in a
\* single level, and a budget that one such level covers
BestAskTied ==
  /\ RouteReturned
  /\ rt.fn = "backend"
  /\ rt.direction = "buy"
  /\ Len(rt.full_books) = 2
  /\ \A i \in 1..2 : rt.full_books[i].asks # << >>
  /\ rt.full_books[1].asks[1].price = rt.full_books[2].asks[1].price
  /\ LET g == rt.full_books[1].asks[1].price
     IN /\ \A i \in 1..2 :
             /\ NotionalAt(rt.full_books[i].platform, g) > 0
             /\ NotionalAt(rt.full_books[i].platform, g)
                  = Times(rt.full_books[i].asks[1].size, g)
        /\ NotionalAt(rt.full_books[1].platform, g) = NotionalAt(rt.full_books[2].platform, g)
        /\ rt.budget <= NotionalAt(rt.full_books[1].platform, g)

\* What each of the two venues offers at the prices after the best ask
NotionalAfterBest(p) ==
  Notional(SelectSeq(WalkedLevels,
                     LAMBDA lv : lv.platform = p /\ lv.price > rt.full_books[1].asks[1].price))

Swapped(books) == << books[2], books[1] >>

\* C27: in the tie the route uses one venue, the one that offers more at
\* the next price; when that is tied too, the venue does not depend on
\* the order of the books.
TieBrokenByNextLevel ==
  BestAskTied =>
    /\ rt.result.platforms_used = 1
    /\ LET a == rt.full_books[1].platform
           b == rt.full_books[2].platform
       IN IF NotionalAfterBest(a) > NotionalAfterBest(b) THEN DOMAIN rt.result.per_platform = {a}
          ELSE IF NotionalAfterBest(a) < NotionalAfterBest(b) THEN DOMAIN rt.result.per_platform = {b}
          ELSE DOMAIN rt.result.per_platform
                 = DOMAIN find_optimal_route(Swapped(rt.full_books), rt.budget, rt.direction).per_platform

Pooled == pl.fn \in {"build_pooled", "build_pooled_root"}

\* The levels of the pooled side of the books that carry no error
InputLevels(books) ==
  Concat([i \in DOMAIN books |->
            IF "error" \in DOMAIN books[i] THEN << >> ELSE books[i][pl.side_key]])

BucketSum(books, key) ==
  SizeSum(SelectSeq(InputLevels(books), LAMBDA level : price_key(level.price_cents) = key))

Buckets(books) == {key \in GridKeys : BucketSum(books, key) > 0}

\* The function of the call applied to other books
PooledOf(books) ==
  IF pl.fn = "build_pooled" THEN build_pooled(books, pl.side_key)
  ELSE build_pooled_root(books, pl.side_key)

\* An emitted level without its cumsum
Bare(e) == [price |-> e.price, size |-> e.size, total |-> e.total, price_cents |-> e.price_cents]

BareLevels(levels) == {Bare(levels[i]) : i \in DOMAIN levels}

\* Every key with a positive sum is emitted and no other, and the pooled
\* levels of two books with no bucket in common are those of each book
EmittedIffPositive ==
  /\ {pl.result[i].price : i \in DOMAIN pl.result} = Buckets(pl.books)
  /\ (Len(pl.books) = 2 /\ Buckets(<< pl.books[1] >>) \cap Buckets(<< pl.books[2] >>) = {})
       => BareLevels(pl.result)
            = BareLevels(PooledOf(<< pl.books[1] >>)) \cup BareLevels(PooledOf(<< pl.books[2] >>))

\* C29 as stated: the size of an emitted level is the sum of the sizes of
\* the input levels of its bucket, a bucket is emitted exactly when the sum
\* is positive, and books without a common bucket pool to the union of
\* their levels.
PooledSizeIsSum ==
  Pooled =>
    /\ \A i \in DOMAIN pl.result : pl.result[i].size = BucketSum(pl.books, pl.result[i].price)
    /\ EmittedIffPositive

\* Witness for C29: two books without a common bucket are pooled and a
\* bucket holds a sum that two decimals do not express
TwoBooksPooledOffGrid ==
  /\ Pooled
  /\ Len(pl.books) = 2
  /\ Buckets(<< pl.books[1] >>) # {}
  /\ Buckets(<< pl.books[2] >>) # {}
  /\ Buckets(<< pl.books[1] >>) \cap Buckets(<< pl.books[2] >>) = {}
  /\ \E i \in DOMAIN pl.result : pl.result[i].size # BucketSum(pl.books, pl.result[i].price)

\* C29 (amended): the size of an emitted level is the sum of the sizes of
\* the input levels of its bucket rounded to two decimals, a bucket is
\* emitted exactly when the sum is positive, and books without a common
\* bucket pool to the union of the pooled levels of each.
PooledSizeIsRoundedSum ==
  Pooled =>
    /\ \A i \in DOMAIN pl.result :
         pl.result[i].size = Round2(BucketSum(pl.books, pl.result[i].price))
    /\ EmittedIffPositive

RECURSIVE TotalUpTo(_, _)
TotalUpTo(levels, i) == IF i = 0 THEN 0 ELSE levels[i].total + TotalUpTo(levels, i - 1)

\* cumsum is the running sum of total along the list, and never falls
RunningSum(levels) ==
  /\ \A i \in DOMAIN levels : levels[i].cumsum = TotalUpTo(levels, i)
  /\ \A i \in 1..(Len(levels) - 1) : levels[i].cumsum <= levels[i + 1].cumsum

\* C30: in the pooled book of a side the asks rise strictly in price, the
\* bids fall strictly in price, and on both lists cumsum is the running
\* sum of total in the order of the list.
PooledSideMonotone ==
  pl.fn = "_build_side" =>
    /\ \A i \in 1..(Len(pl.result.asks) - 1) :
         pl.result.asks[i].price < pl.result.asks[i + 1].price
    /\ \A i \in 1..(Len(pl.result.bids) - 1) :
         pl.result.bids[i].price > pl.result.bids[i + 1].price
    /\ RunningSum(pl.result.asks)
    /\ RunningSum(pl.result.bids)

\* -------------------------------------------------------------------------
\* C31
LevelsOf(book) == book.asks \o book.bids

ReflectedTwice == ad.fn # "none" /\ ad.side = "yes" /\ Len(ad.books) = 3

Listed(book, fn) ==
  /\ \A i \in 1..(Len(book.bids) - 1) : book.bids[i].price > book.bids[i + 1].price
  /\ \A i \in 1..(Len(book.asks) - 1) :
       IF fn = "get_orderbook" THEN book.asks[i].price < book.asks[i + 1].price
                               ELSE book.asks[i].price > book.asks[i + 1].price

StepsAndSizes(levels) == {<< levels[i].price_cents, levels[i].size >> : i \in DOMAIN levels}

MirroredSteps(levels) == {<< Ticks - levels[i].price_cents, levels[i].size >> : i \in DOMAIN levels}

SameUpToRounding(a, b) ==
  /\ Len(a) = Len(b)
  /\ \A i \in DOMAIN a :
       /\ a[i].size = b[i].size
       /\ a[i].price_cents = b[i].price_cents
       /\ 2 * Abs(a[i].price - b[i].price) * Sig <= One
       /\ 2 * b[i].price >= One => a[i].price = b[i].price

OfferReturned == ad.fn = "get_best_offer"

\* the levels get_best_offer has to choose from, with the sizes in shares
SentLevels ==
  LET sent == IF ad.side = "BUY" THEN ad.data.asks ELSE ad.data.bids
  IN IF ad.venue = "opinion" /\ ad.errno # 0 THEN {}
     ELSE {[price |-> float(sent[i].price),
            size |-> IF ad.venue = "limitless" THEN sent[i].size ELSE sent[i].size * Divisor] :
             i \in DOMAIN sent}

\* The venue sent two asks, the higher one first, and BUY was asked for
BestAskSentSecond ==
  /\ OfferReturned
  /\ ad.side = "BUY"
  /\ ad.venue = "limitless"
  /\ Len(ad.data.asks) = 2
  /\ ad.data.asks[1].price > ad.data.asks[2].price
  /\ ad.data.asks[1].size # ad.data.asks[2].size
  /\ ad.offer.price > 0

\* C32: get_best_offer of every relayer adapter returns, for BUY, the price
\* and the size of the lowest ask and, for SELL, those of the highest bid,
\* in whatever order the venue sent the levels, and price 0 and size 0
\* when the side holds no level
BestOfferIsBestLevel ==
  OfferReturned =>
    /\ ad.offer.side = ad.side
    /\ SentLevels = {} => ad.offer.price = 0 /\ ad.offer.size = 0
    /\ SentLevels # {} =>
         /\ [price |-> ad.offer.price, size |-> ad.offer.size] \in SentLevels
         /\ \A lv \in SentLevels :
              IF ad.side = "BUY" THEN ad.offer.price <= lv.price
                                 ELSE ad.offer.price >= lv.price

\* -------------------------------------------------------------------------
\* C33
Failing(res) == IsException(res) \/ "error" \in DOMAIN res

FailingVenues(results) == {ADAPTERS[i] : i \in {j \in DOMAIN results : Failing(results[j])}}

Remaining(results) == SelectSeq(results, LAMBDA res : ~ Failing(res))

RouteAnswered == hr.fn \in {"route", "route_root"}

BooksAnswered == hr.fn \in {"orderbook_all", "orderbook_all_root"}

\* the route of the request's copy over the books of the venues that did
\* not fail
RouteOfRemaining ==
  IF hr.fn = "route" THEN find_optimal_route(Remaining(hr.results), hr.budget, hr.direction)
  ELSE find_optimal_route_root(Remaining(hr.results), hr.budget, hr.direction)

PooledOfRemaining(side) ==
  IF hr.fn = "orderbook_all" THEN _build_side(Remaining(hr.results[side]))
  ELSE _build_side_root(Remaining(hr.results[side]))

\* C33: a venue whose fetch raises or returns an error result does not
\* fail the request: the route, or the pooled book of a side, is the one
\* of the books of the remaining venues, and the failing venues are the
\* ones reported under their names with an error
FailingVenueIsLeftOutAndReported ==
  /\ RouteAnswered =>
       /\ hr.response.status = 200
       /\ hr.response.body.result = RouteOfRemaining
       /\ DOMAIN hr.response.body.adapter_errors = FailingVenues(hr.results)
  /\ BooksAnswered =>
       /\ hr.response.status = 200
       /\ \A side \in {"yes", "no"} :
            /\ hr.response.body[side].pooled = PooledOfRemaining(side)
            /\ \A i \in DOMAIN ADAPTERS :
                 "error" \in DOMAIN hr.response.body[side].platforms[ADAPTERS[i]]
                   <=> Failing(hr.results[side][i])

\* -------------------------------------------------------------------------
\* C34
\* C34: the amounts sent to the venues are floored and never above what is
\* there: the dollars of a BUY are at most the floor to cents of the
\* smaller of the venue's spent and the balance read on chain just before,
\* no BUY is placed when that floor is below one dollar, and the shares of
\* a SELL are at most shares_amount of the order
SubmittedAmountsAreFloored ==
  /\ \A i \in DOMAIN tr.calls :
       LET c == tr.calls[i]
           available == Min(c.read.spent, c.read.balance)
       IN /\ c.read.actual_spent % SubPerCent = 0
          /\ c.order.placed =>
               /\ SubPerCent * c.order.cents <= c.read.actual_spent
               /\ SubPerCent * c.order.cents <= available
               /\ c.read.actual_spent >= Dollar
               /\ c.read.balance = tr.balances[tr.order.venues[i]]
                                     + (IF c.order.accepted THEN SubPerCent * c.order.cents ELSE 0)
  /\ \A i \in DOMAIN tr.sell :
       tr.sell[i].order.placed =>
         SubPerCent * tr.sell[i].order.cents <= tr.order.shares_amount

\* -------------------------------------------------------------------------
\* C35
\* C35: over the attempts of a buy order every venue gets at most one BUY
\* that it accepts: a venue whose BUY was placed is not sent another one
\* when the attempt is made again because another venue failed
AtMostOneAcceptedBuyPerVenue ==
  \A v \in TradeVenues : tr.accepted[v] <= 1

\* -------------------------------------------------------------------------
\* C36
\* C36: with two buy orders of two wallets matched on one venue for one
\* token, the settle-and-transfer step of an order takes for its wallet the
\* shares that order bought and no more, so that the other order finds its
\* own shares on the address and is filled as well
\* (opinion keeps the shares on its custody wallet and transfers nothing)
SettleTransfersOwnSharesOnly ==
  sh.venue # "opinion" =>
    \A i \in DOMAIN sh.buys :
      sh.buys[i].status = "filled" /\ sh.buys[i].both =>
        /\ sh.buys[i].amount = sh.buys[i].bought
        /\ \A k \in DOMAIN sh.buys :
             k # i /\ sh.buys[k].status = "matched" => sh.shares >= sh.buys[k].bought

\* -------------------------------------------------------------------------
\* C37
\* C37: the proceeds recorded for a sell order, and paid to its wallet, are
\* the stablecoin its own SELL produced: what reaches the address from
\* another order between the snapshot and the settlement poll is not
\* counted
ProceedsAreOwnSale ==
  \A j \in DOMAIN sh.sells :
    sh.sells[j].status \in {"sell_settled", "bridge_failed", "completed"} =>
      /\ sh.sells[j].paid
      /\ sh.sells[j].proceeds = sh.sells[j].own

\* -------------------------------------------------------------------------
\* C38
\* C38: shares_amount of a sell order is at most the shares of the token
\* that belong to the wallet of the buy order: its balance on chain where
\* the shares are transferred to the users, and on opinion what its own
\* filled buys left on the custody wallet
SellWithinAttributable ==
  \A j \in DOMAIN sh.sells : sh.sells[j].shares_amount <= sh.sells[j].attributable

\* -------------------------------------------------------------------------
\* C39
RECURSIVE BridgedTotal(_, _)
BridgedTotal(bridges, chains) ==
  IF chains = {} THEN 0
  ELSE LET c == CHOOSE x \in chains : TRUE
       IN  bridges[c].amount.usd + BridgedTotal(bridges, chains \ {c})

Pulled == \E i \in DOMAIN co.txs : co.txs[i].kind = "pull"

\* C39: whatever route the body of a create_order request carries, the
\* amounts allocated or bridged to the target chains (bridges[chain].amount)
\* add up to at most the amount pulled from the user, both in raw units of
\* the source chain
BridgesWithinPulled ==
  Pulled => BridgedTotal(co.bridges, DOMAIN co.bridges) <= co.amount_raw.usd

\* -------------------------------------------------------------------------
\* C40
\* The levels of a venue on the walked side that offer something at a price
OfferedAt(v, price) ==
  {<< b, i >> \in {<< b, i >> \in (DOMAIN rt.full_books) \X (1..MaxLevels) :
                     i \in DOMAIN rt.full_books[b][side_key_of(rt.direction)]} :
     /\ rt.full_books[b].platform = v
     /\ rt.full_books[b][side_key_of(rt.direction)][i].price = price
     /\ rt.full_books[b][side_key_of(rt.direction)][i].size > 0}

\* The fills among the first n of the route that are on a venue at a price
FilledAt(v, price, n) ==
  {k \in 1..n : rt.result.fills[k].platform = v /\ rt.result.fills[k].price = price}

RoutePrices == {1, 2, 4}

\* C40: a route with unfilled > 0 has a fill for every level that offers
\* something on the walked side of every book, and a fill at a price comes
\* after the fills of every level at a strictly better price
NoBetterPriceLeftBehind ==
  RouteReturned =>
    LET fills == rt.result.fills
    IN /\ rt.result.unfilled > 0 =>
            \A v \in AllPlatforms : \A p \in RoutePrices :
              Cardinality(FilledAt(v, p, Len(fills))) = Cardinality(OfferedAt(v, p))
       /\ \A k \in DOMAIN fills :
            \A v \in AllPlatforms : \A q \in RoutePrices :
              Better(q, fills[k].price) =>
                Cardinality(FilledAt(v, q, k - 1)) = Cardinality(OfferedAt(v, q))

\* The same for the copy of src/utils/utils.py alone
NoBetterPriceLeftBehindRoot == rt.fn = "root" => NoBetterPriceLeftBehind

====
